---------------------------- MODULE Spec2Model ----------------------------
(***************************************************************************)
(* A model of the pi-mono-py agent runtime: the EventStream of pi_ai, the  *)
(* agent loop of pi_agent.loop and the Agent facade of pi_agent.agent.     *)
(*                                                                         *)
(* The specifications below share the definitions:                         *)
(*   SpecStream   an EventStream with one producer, one consumer and a     *)
(*                task awaiting result();                                  *)
(*   SpecAdapter  the task of stream_openai_completions and its stream;    *)
(*   SpecAdapters the adapter tasks of stream_openai_completions and       *)
(*                stream_zhipu;                                            *)
(*   SpecResponse the adapter task and the loop reading its response;      *)
(*   SpecHelpers  the pure helpers of the adapters;                        *)
(*   SpecQueues   the Agent's steering and follow-up queues;               *)
(*   SpecBackoff  the backoff waits of one retry loop;                     *)
(*   SpecLoop     one activation started by agent_loop/agent_loop_continue *)
(*                with caller-supplied hooks and adapter;                  *)
(*   Spec         the Agent facade driving activations through its own     *)
(*                hooks (Agent._run_loop);                                 *)
(*   SpecHistory  Spec with calls of Agent.append_message;                 *)
(*   SpecConfig   Spec started under each configuration of state.model;    *)
(*   SpecListeners Spec with a subscribed listener that raises;            *)
(*   SpecExecutor one call of _execute_tool_calls;                         *)
(*   SpecRegistry the adapter registries of pi_ai;                         *)
(*   SpecIdle     SpecListeners with a task calling Agent.wait_for_idle(). *)
(*                                                                         *)
(* The loop task is modelled as far as the code can run.  loop.py:155 and  *)
(* loop.py:549 read StopReason.error, and StopReason is the typing alias   *)
(* Literal[...] of pi_ai/types.py:11, which has no such attribute: both    *)
(* lines raise AttributeError.  What follows line 155 in _run_loop (tool   *)
(* execution, turn_end, the steering and follow-up polls after a turn,     *)
(* agent_end) is therefore never reached and no action models it.          *)
(***************************************************************************)
EXTENDS Integers, Sequences, FiniteSets, TLC

\* ------------------------------------------------------------------ bounds
\* Number of push/end calls made on the stand-alone EventStream.
MaxPush == 4

\* -------------------------------------------------------------- EventStream
VARIABLES
    es,        \* the stand-alone EventStream: [q, done, res]
    esIn,      \* ghost: events pushed while the stream was not yet done
    esOut,     \* ghost: events __anext__ has returned to the consumer
    esHalted,  \* the consumer's iteration has raised StopAsyncIteration
    esCalls,   \* number of push/end calls made so far
    esGot,     \* what "await stream.result()" returned: <<>> while it waits
    ad,        \* the task of an adapter (stream_openai_completions._run)
    bo,        \* the backoff waits of one retry loop
    drained,   \* what the last drain of a queue returned
    ex,        \* one call of _execute_tool_calls
    reg,       \* the adapter registries of pi_ai
    idle,      \* a task that called Agent.wait_for_idle()
    call       \* a helper function of an adapter, its arguments and its result

\* _SENTINEL = object()
SENTINEL == [type |-> "SENTINEL"]

\* EventStream.__init__: empty queue, not done, result future unresolved.
\* The result future is a sequence: <<>> unresolved, <<r>> resolved with r.
NewStream == [q |-> <<>>, done |-> FALSE, res |-> <<>>]

\* A push that enqueues the sentinel before the completing event.
pushSentinelFirst(s, event, complete, result) ==
    IF s.done THEN s
    ELSE IF complete
         THEN [q |-> s.q \o <<SENTINEL, event>>, done |-> TRUE,
               res |-> IF s.res = <<>> THEN <<result>> ELSE s.res]
         ELSE [s EXCEPT !.q = Append(@, event)]

\* A push that forgets the done check of event_stream.py:28-29.
pushIgnoresDone(s, event, complete, result) ==
    IF complete
    THEN [q |-> s.q \o <<event, SENTINEL>>, done |-> TRUE,
          res |-> IF s.res = <<>> THEN <<result>> ELSE s.res]
    ELSE [s EXCEPT !.q = Append(@, event)]

\* EventStream.push; complete = is_complete(event), result = extract_result(event).
push(s, event, complete, result) ==
    IF s.done THEN s
    ELSE IF complete
         THEN [q |-> s.q \o <<event, SENTINEL>>, done |-> TRUE,
               res |-> IF s.res = <<>> THEN <<result>> ELSE s.res]
         ELSE [s EXCEPT !.q = Append(@, event)]

\* EventStream.end; r is <<>> for end() / end(None) and <<x>> for end(x).
end(s, r) ==
    [q |-> Append(s.q, SENTINEL), done |-> TRUE,
     res |-> IF r # <<>> /\ s.res = <<>> THEN r ELSE s.res]

\* The events of a queue that precede its first sentinel.
RECURSIVE BeforeSentinel(_)
BeforeSentinel(q) ==
    IF q = <<>> \/ Head(q) = SENTINEL THEN <<>>
    ELSE <<Head(q)>> \o BeforeSentinel(Tail(q))

\* Events of the stand-alone stream; "fin" is the one is_complete accepts.
StreamEvents == {[type |-> "ev", n |-> 1], [type |-> "ev", n |-> 2], [type |-> "fin", n |-> 0]}

is_complete(e) == e.type = "fin"

extract_result(e) == e.n


\* ------------------------------------------------------------ more bounds
\* Activations one Agent starts (slots of act); SpecLoop uses slot 1 only.
MaxActs == 1
\* Content deltas an adapter response carries.
MaxDeltas == 2
\* Messages waiting in one queue of the Agent in SpecQueues.
MaxQueue == 3
\* Length of the history up to which append_message is called.
MaxAppend == 1
\* Messages passed to steer() and to follow_up() during one behaviour.
MaxSteer == 1
MaxFollowUp == 1
\* abort() calls made during one behaviour of the Agent.
MaxAborts == 2

\* AgentLoopConfig.max_retries, the default of the configuration modelled.
max_retries == 3

\* ---------------------------------------------------------------- messages
\* (Record constructors list their fields in the order the model checker keeps
\* them in, the order of first use in this module.)
UserMessage(n) == [n |-> n, role |-> "user"]

\* An assistant message: fin is FALSE for the partial an adapter is still
\* growing (ver counts the deltas applied), TRUE for a final message.
AssistantMessage(stop, calls, fin, ver) ==
    [role |-> "assistant", stop |-> stop, calls |-> calls, fin |-> fin, ver |-> ver]

ToolCall(id, name) == [id |-> id, name |-> name]

ToolResultMessage(tool_call_id, tool_name, is_error) ==
    [role |-> "toolResult", tool_call_id |-> tool_call_id, tool_name |-> tool_name,
     is_error |-> is_error]

\* The final messages an adapter may end a response with (DoneEvent or
\* ErrorEvent): any stop reason, with or without tool calls.
FinalMessages ==
    { AssistantMessage("stop", <<>>, TRUE, 0),
      AssistantMessage("toolUse", <<ToolCall(1, "echo")>>, TRUE, 0),
      AssistantMessage("toolUse", <<ToolCall(1, "echo"), ToolCall(2, "echo")>>, TRUE, 0),
      AssistantMessage("error", <<>>, TRUE, 0),
      AssistantMessage("aborted", <<>>, TRUE, 0) }

\* ------------------------------------------------------------------ events
AgentStartEvent == [type |-> "agent_start"]
TurnStartEvent == [type |-> "turn_start"]
MessageStartEvent(message) == [type |-> "message_start", message |-> message]
MessageUpdateEvent(message) == [type |-> "message_update", message |-> message]
MessageEndEvent(message) == [type |-> "message_end", message |-> message]

\* --------------------------------------------------------------- activation
VARIABLES
    act,            \* act[a]: the loop task of activation a and its consumer
    steeringQueue,  \* Agent._steering_queue (SpecLoop: the queue behind the hook)
    followUpQueue,  \* Agent._follow_up_queue
    steeringMode,   \* Agent._steering_mode
    followUpMode,   \* Agent._follow_up_mode
    nSteer,         \* steer() calls made so far
    nFollowUp,      \* follow_up() calls made so far
    state,          \* Agent._state (AgentState)
    cancel_event,   \* Agent._cancel_event: 0 for None, else the activation owning it
    listenerLog,    \* the events Agent._emit handed to the listeners
    raised,         \* what the last prompt()/continue_() call raised, or "started"
    nAbort          \* abort() calls made so far

Acts == 1 .. MaxActs

\* pc of a loop task:
\*   none           no activation was started in this slot
\*   created        asyncio.create_task(_run()) was called, _run has not run yet
\*   poll_initial   awaiting config.get_steering_messages() at loop.py:130
\*   await_llm      awaiting stream_function(...) at loop.py:259-264
\*   backoff        awaiting _exponential_backoff at loop.py:271/279
\*   streaming      awaiting the next event of the response at loop.py:312
\*   finished       _run returned
\*   crashed        _run ended with the exception exc, which nobody retrieves
\* cancel is the activation's cancel_event; abortAt (ghost) is the pc at
\* which it was first set and nAborts (ghost) the number of times it was set.
\* attempt is the retry loop's variable and llmCalls (ghost) the number of
\* times stream_function was called for the response being produced, and
\* timeouts (ghost) the number of those calls that timed out.  skip is the
\* skip_initial of Agent._run_loop (agent.py:296), which the activation's
\* steering hook closes over.  stream is the activation's EventStream and trace
\* (ghost) the events it accepted.  cpc and cpartial belong to the Agent's
\* "async for event in stream": iterating or returned, and its local partial.
\* running_prompt is the future Agent._run_loop created for the activation
\* (agent.py:267): none, pending or done.
IdleAct ==
    [pc |-> "none", exc |-> "none", ctx |-> <<>>, new |-> <<>>, firstTurn |-> TRUE,
     attempt |-> 0, llmCalls |-> 0, lastErr |-> "none", addedPartial |-> FALSE, partial |-> <<>>,
     nDelta |-> 0, cancel |-> FALSE, abortAt |-> "none", nAborts |-> 0,
     stream |-> NewStream, trace |-> <<>>, cpc |-> "none", cpartial |-> <<>>,
     timeouts |-> 0, skip |-> FALSE, running_prompt |-> "none"]

\* The loop task is over: nothing pushes to the activation's stream any more.
LoopOver == {"finished", "crashed"}

\* stream.push(event) on the activation's stream (_create_agent_stream:
\* is_complete is type = agent_end, extract_result is event.messages).
emit(L, e) ==
    [L EXCEPT !.stream = push(@, e, e.type = "agent_end",
                              IF e.type = "agent_end" THEN e.messages ELSE <<>>),
              !.trace = IF L.stream.done THEN @ ELSE Append(@, e)]

RECURSIVE emitMessages(_, _)
\* stream.push(MessageStartEvent(m)); stream.push(MessageEndEvent(m)) for each m.
emitMessages(L, ms) ==
    IF ms = <<>> THEN L
    ELSE emitMessages(emit(emit(L, MessageStartEvent(Head(ms))), MessageEndEvent(Head(ms))), Tail(ms))

\* An exception leaves _run_loop and _run: the task ends, the stream is
\* neither given agent_end nor ended.
crash(L, exception) == [L EXCEPT !.pc = "crashed", !.exc = exception]

\* _create_error_message (loop.py:533-552): evaluating the argument
\* stopReason=StopReason.error raises AttributeError, no message is built.
create_error_message(L, text) == crash(L, "AttributeError")

\* loop.py:153-155: the assistant message m was returned by
\* _stream_assistant_response; it is appended to new_messages, and the test
\* of line 155 raises AttributeError while building its tuple.
afterAssistant(L, m) ==
    crash([L EXCEPT !.new = Append(@, m), !.addedPartial = FALSE, !.partial = <<>>,
                    !.nDelta = 0, !.attempt = 0, !.lastErr = "none"],
          "AttributeError")

\* loop.py:252-264: one pass of the retry loop up to the adapter call.  The
\* AttributeError of _create_error_message is raised inside the try block;
\* "except Exception" finds no rate-limit text in it and re-raises.
tryAttempt(L) ==
    IF L.cancel THEN create_error_message(L, "Request cancelled")
    ELSE [L EXCEPT !.pc = "await_llm", !.llmCalls = @ + 1]

\* loop.py:136-152: the first turn with the given pending messages
\* (first_turn is True: no turn_start is pushed here).
startTurn(L, pendingMsgs) ==
    LET L1 == IF L.firstTurn THEN [L EXCEPT !.firstTurn = FALSE] ELSE emit(L, TurnStartEvent)
        L2 == emitMessages(L1, pendingMsgs)
        L3 == [L2 EXCEPT !.ctx = @ \o pendingMsgs, !.new = @ \o pendingMsgs,
                         !.attempt = 0, !.llmCalls = 0, !.lastErr = "none",
                         !.timeouts = 0]
    IN  tryAttempt(L3)

\* ------------------------------------------------------------------ queues
Modes == {"one-at-a-time", "all"}

\* A drain that takes the newest message in mode one-at-a-time.
dequeuedNewest(q, mode) ==
    IF mode = "one-at-a-time"
    THEN (IF Len(q) > 0 THEN <<q[Len(q)]>> ELSE <<>>)
    ELSE q

\* Agent._dequeue_steering_messages / _dequeue_follow_up_messages: the
\* messages a drain returns, and the queue it leaves.
dequeued(q, mode) ==
    IF mode = "one-at-a-time"
    THEN (IF Len(q) > 0 THEN <<q[1]>> ELSE <<>>)
    ELSE q

\* A drain that leaves nothing in the queue, whatever it returned.
remainingNone(q, mode) == <<>>

remaining(q, mode) ==
    IF mode = "one-at-a-time"
    THEN (IF Len(q) > 0 THEN Tail(q) ELSE <<>>)
    ELSE <<>>

\* ------------------------------------------------------- loop task actions
\* soloVars and streamVars: what the loop task and the Agent never touch.
soloVars == <<ad, bo, drained, ex, reg, idle, call>>
streamVars == <<es, esIn, esOut, esHalted, esCalls, esGot, ad, bo, drained, ex, reg, idle, call>>
queueVars == <<steeringQueue, followUpQueue, steeringMode, followUpMode, nSteer, nFollowUp>>
agentVars == <<state, cancel_event, listenerLog, raised, nAbort>>
vars == <<es, esIn, esOut, esHalted, esCalls, esGot, ad, bo, drained, ex, reg, idle, call, act, steeringQueue, followUpQueue,
          steeringMode, followUpMode, nSteer, nFollowUp, state, cancel_event,
          listenerLog, raised, nAbort>>

setAct(a, L) == act' = [act EXCEPT ![a] = L]

\* Agent.steer
steer(m) ==
    /\ nSteer < MaxSteer
    /\ steeringQueue' = Append(steeringQueue, m)
    /\ nSteer' = nSteer + 1
    /\ UNCHANGED <<followUpQueue, steeringMode, followUpMode, nFollowUp, act>>
    /\ UNCHANGED <<streamVars, agentVars>>

\* Agent.follow_up
follow_up(m) ==
    /\ nFollowUp < MaxFollowUp
    /\ followUpQueue' = Append(followUpQueue, m)
    /\ nFollowUp' = nFollowUp + 1
    /\ UNCHANGED <<steeringQueue, steeringMode, followUpMode, nSteer, act>>
    /\ UNCHANGED <<streamVars, agentVars>>

\* A step of the loop task of activation a alone.
onlyAct(a, L) ==
    /\ setAct(a, L)
    /\ UNCHANGED <<streamVars, queueVars, agentVars>>

\* agent_loop._run / agent_loop_continue._run up to the first await
\* (loop.py:63-76, 97-106): L.new holds the prompts, L.ctx the context.
LoopTaskStart(a) ==
    /\ act[a].pc = "created"
    /\ LET L1 == emit(emit(act[a], AgentStartEvent), TurnStartEvent)
           L2 == emitMessages(L1, L1.new)
       IN  onlyAct(a, [L2 EXCEPT !.pc = "poll_initial"])

\* A hook of the caller that drains steeringQueue returns (loop.py:130).
SteeringPoll(a) ==
    /\ act[a].pc = "poll_initial"
    /\ steeringQueue' = remaining(steeringQueue, steeringMode)
    /\ setAct(a, startTurn(act[a], dequeued(steeringQueue, steeringMode)))
    /\ UNCHANGED <<followUpQueue, steeringMode, followUpMode, nSteer, nFollowUp>>
    /\ UNCHANGED <<streamVars, agentVars>>

\* A hook of the caller raises: the exception propagates out of _run_loop and _run.
HookRaises(a) ==
    /\ act[a].pc = "poll_initial"
    /\ onlyAct(a, crash(act[a], "hook"))

\* stream_function returns a response stream (loop.py:259-264).
LlmReturns(a) ==
    /\ act[a].pc = "await_llm"
    /\ onlyAct(a, [act[a] EXCEPT !.pc = "streaming", !.addedPartial = FALSE,
                                 !.partial = <<>>, !.nDelta = 0])

\* A retry loop that allows one retry too many.
LlmRateLimitOneMore(a) ==
    /\ act[a].pc = "await_llm"
    /\ IF act[a].attempt <= max_retries
       THEN onlyAct(a, [act[a] EXCEPT !.pc = "backoff", !.lastErr = "rate"])
       ELSE onlyAct(a, crash(act[a], "rate"))

\* stream_function raises a rate-limit-like exception (loop.py:273-282):
\* retried while attempt < max_retries, else re-raised out of _run.
LlmRateLimit(a) ==
    /\ act[a].pc = "await_llm"
    /\ IF act[a].attempt < max_retries
       THEN onlyAct(a, [act[a] EXCEPT !.pc = "backoff", !.lastErr = "rate"])
       ELSE onlyAct(a, crash(act[a], "rate"))

\* stream_function raises any other exception: it propagates out of _run.
LlmRaises(a) ==
    /\ act[a].pc = "await_llm"
    /\ onlyAct(a, crash(act[a], "llm"))

\* asyncio.wait_for times out (loop.py:268-272); after the last attempt the
\* for loop ends and line 285 calls _create_error_message.
LlmTimeout(a) ==
    /\ act[a].pc = "await_llm"
    /\ LET L == [act[a] EXCEPT !.lastErr = "timeout", !.timeouts = @ + 1]
       IN  IF L.attempt < max_retries
           THEN onlyAct(a, [L EXCEPT !.pc = "backoff"])
           ELSE onlyAct(a, create_error_message(L, "timed out"))

\* _exponential_backoff returns (the delay passed or the cancel_event was
\* set): the next pass of the retry loop.
BackoffDone(a) ==
    /\ act[a].pc = "backoff"
    /\ onlyAct(a, tryAttempt([act[a] EXCEPT !.attempt = @ + 1]))

\* _process_llm_response, StartEvent (loop.py:313-317).
RespStart(a) ==
    /\ act[a].pc = "streaming"
    /\ ~act[a].addedPartial
    /\ act[a].nDelta = 0
    /\ LET p == AssistantMessage("stop", <<>>, FALSE, 0)
           L == [act[a] EXCEPT !.partial = <<p>>, !.ctx = Append(@, p),
                               !.addedPartial = TRUE]
       IN  onlyAct(a, emit(L, MessageStartEvent(p)))

\* _process_llm_response, a delta event (loop.py:318-340): ignored when no
\* StartEvent came first.
RespDelta(a) ==
    /\ act[a].pc = "streaming"
    /\ act[a].nDelta < MaxDeltas
    /\ IF act[a].partial # <<>>
       THEN LET p == AssistantMessage("stop", <<>>, FALSE, act[a].nDelta + 1)
                L == [act[a] EXCEPT !.partial = <<p>>, !.nDelta = @ + 1,
                                    !.ctx = [@ EXCEPT ![Len(@)] = p]]
            IN  onlyAct(a, emit(L, MessageUpdateEvent(p)))
       ELSE onlyAct(a, [act[a] EXCEPT !.nDelta = @ + 1])

\* The same delta when MessageUpdateEvent(...) raises: the field
\* assistant_message_event is declared under the alias assistantMessageEvent
\* (types.py:117-120) and loop.py:336 passes it by field name; whether the
\* validation library takes the name is outside the source, so both
\* outcomes are kept.
RespDeltaRaises(a) ==
    /\ act[a].pc = "streaming"
    /\ act[a].nDelta < MaxDeltas
    /\ act[a].partial # <<>>
    /\ LET p == AssistantMessage("stop", <<>>, FALSE, act[a].nDelta + 1)
       IN  onlyAct(a, crash([act[a] EXCEPT !.partial = <<p>>,
                                           !.ctx = [@ EXCEPT ![Len(@)] = p]],
                            "ValidationError"))

\* _process_llm_response, DoneEvent or ErrorEvent carrying m (loop.py:341-351),
\* then loop.py:153-155.
RespFinal(a, m) ==
    /\ act[a].pc = "streaming"
    /\ LET L0 == act[a]
           L1 == IF L0.addedPartial
                 THEN [L0 EXCEPT !.ctx = [@ EXCEPT ![Len(@)] = m]]
                 ELSE emit([L0 EXCEPT !.ctx = Append(@, m)], MessageStartEvent(m))
           L2 == emit(L1, MessageEndEvent(m))
       IN  onlyAct(a, afterAssistant(L2, m))

\* --------------------------------------------------- SpecStream: EventStream
NoActs == [a \in Acts |-> IdleAct]

\* What state.model can be: None; a model whose api tag has no registered
\* adapter; a model for which no API key is available; a model whose adapter
\* and key are both there.
Models == {"None", "no_provider", "no_api_key", "ready"}

\* AgentState() as Agent.__init__ builds it (agent.py:47-51, types.py:81-91),
\* here with a usable model.
NewAgentState ==
    [messages |-> <<>>, is_streaming |-> FALSE, stream_message |-> <<>>,
     pending_tool_calls |-> {}, error |-> <<>>, model |-> "ready"]

InitAgentVars ==
    /\ state = NewAgentState
    /\ cancel_event = 0
    /\ listenerLog = <<>>
    /\ raised = "none"
    /\ nAbort = 0
\* No adapter task, no retry loop and no drain: the parts a specification
\* does not exercise stay as they are here.
NoAdapter == [stop |-> "stop", ver |-> 0, pc |-> "none", api |-> "openai-completions"]
NoBackoff == [pc |-> "none"]
NoExecutor == [pc |-> "none"]
NoRegistry == [log |-> <<>>]
NoWaiter == [pc |-> "none"]
NoCall == <<>>
InitSolo ==
    /\ esGot = <<>>
    /\ ad = NoAdapter
    /\ bo = NoBackoff
    /\ drained = <<>>
    /\ ex = NoExecutor
    /\ reg = NoRegistry
    /\ idle = NoWaiter
    /\ call = NoCall

InitStream ==
    /\ es = NewStream
    /\ esIn = <<>>
    /\ esOut = <<>>
    /\ esHalted = FALSE
    /\ esCalls = 0
    /\ InitSolo
    /\ act = NoActs
    /\ steeringQueue = <<>>
    /\ followUpQueue = <<>>
    /\ steeringMode = "one-at-a-time"
    /\ followUpMode = "one-at-a-time"
    /\ nSteer = 0
    /\ nFollowUp = 0
    /\ InitAgentVars

\* The producer calls push(event).
ESPush(e) ==
    /\ esCalls < MaxPush
    /\ es' = push(es, e, is_complete(e), extract_result(e))
    /\ esIn' = IF es.done THEN esIn ELSE Append(esIn, e)
    /\ esCalls' = esCalls + 1
    /\ UNCHANGED <<esOut, esHalted, esGot, soloVars, act>>
    /\ UNCHANGED <<queueVars, agentVars>>

\* The producer calls end(r).
ESEnd(r) ==
    /\ esCalls < MaxPush
    /\ es' = end(es, r)
    /\ esCalls' = esCalls + 1
    /\ UNCHANGED <<esIn, esOut, esHalted, esGot, soloVars, act>>
    /\ UNCHANGED <<queueVars, agentVars>>

\* EventStream.__anext__ when the queue holds an item: a sentinel raises
\* StopAsyncIteration, anything else is returned.  (On an empty queue the
\* consumer stays suspended in queue.get().)
ESNext ==
    /\ ~esHalted
    /\ es.q # <<>>
    /\ es' = [es EXCEPT !.q = Tail(@)]
    /\ IF Head(es.q) = SENTINEL
       THEN esHalted' = TRUE /\ esOut' = esOut
       ELSE esHalted' = FALSE /\ esOut' = Append(esOut, Head(es.q))
    /\ UNCHANGED <<esIn, esCalls, esGot, soloVars, act>>
    /\ UNCHANGED <<queueVars, agentVars>>

\* "await stream.result()" returns (event_stream.py:57-58): the awaiting
\* task is resumed once the result future is resolved, not before.
ESResult ==
    /\ esGot = <<>>
    /\ es.res # <<>>
    /\ esGot' = es.res
    /\ UNCHANGED <<es, esIn, esOut, esHalted, esCalls, soloVars, act>>
    /\ UNCHANGED <<queueVars, agentVars>>

NextStream ==
    \/ \E e \in StreamEvents : ESPush(e)
    \/ \E r \in {<<>>, <<7>>} : ESEnd(r)
    \/ ESNext
    \/ ESResult

SpecStream == InitStream /\ [][NextStream]_vars

\* The consumer's task is scheduled whenever the queue holds an item.
SpecStreamFair == SpecStream /\ WF_vars(ESNext) /\ WF_vars(ESResult)

\* ------------------------------- SpecAdapter: an adapter and its stream
\* The events of an AssistantMessageEventStream (pi_ai/types.py:156-280).
\* partial, message and error hold the adapter's output object; the model
\* records its value at the push.
StartEvent(p) == [type |-> "start", partial |-> p]
TextDeltaEvent(p) == [type |-> "text_delta", partial |-> p]
DoneEvent(reason, m) == [type |-> "done", message |-> m, reason |-> reason]
ErrorEvent(reason, m) == [type |-> "error", error |-> m, reason |-> reason]

\* AssistantMessageEventStream.__init__: the two lambdas.
am_is_complete(event) == event.type \in {"done", "error"}

\* An extract_result that reads event.message only.
am_extract_message_only(event) ==
    IF event.type = "done" THEN event.message ELSE AssistantMessage("stop", <<>>, FALSE, 0)

am_extract_result(event) ==
    IF event.type = "done" THEN event.message ELSE event.error

\* _map_finish_reason (openai.py:268-275); "none" stands for a chunk
\* without finish_reason.
FinishReasons == {"none", "stop", "length", "tool_calls", "content_filter", "other"}

map_finish_reason(reason) ==
    CASE reason = "length" -> "length"
      [] reason = "tool_calls" -> "toolUse"
      [] OTHER -> "stop"

\* stream.push(event) by the adapter, with the ghost esIn.
adPush(s, event) == push(s, event, am_is_complete(event), am_extract_result(event))

adAccepted(s, event) == IF s.done THEN <<>> ELSE <<event>>

\* The adapter's step: stream s1, accepted events evs, task record A.
adStep(s1, evs, A) ==
    /\ es' = s1
    /\ esIn' = esIn \o evs
    /\ ad' = A
    /\ UNCHANGED <<esOut, esHalted, esCalls, esGot, bo, drained, ex, reg, idle, call, act>>
    /\ UNCHANGED <<queueVars, agentVars>>

\* An exception or a cancellation ends the try block (openai.py:253-262):
\* the output gets the stop reason, ErrorEvent is pushed, finally ends the stream.
adFail(reason) ==
    LET out == AssistantMessage(reason, <<>>, TRUE, ad.ver)
        e   == ErrorEvent(reason, out)
    IN  adStep(end(adPush(es, e), <<>>), adAccepted(es, e),
               [ad EXCEPT !.pc = "ended", !.stop = reason])

\* _run up to "await client.post" (openai.py:77-125).
AdStart ==
    /\ ad.pc = "created"
    /\ LET e == StartEvent(AssistantMessage(ad.stop, <<>>, FALSE, ad.ver))
       IN  adStep(adPush(es, e), adAccepted(es, e), [ad EXCEPT !.pc = "streaming"])

\* One line of the response (openai.py:136-249): a finish_reason sets the
\* output's stop reason, content grows the output and pushes a delta.
AdChunk(reason, content) ==
    /\ ad.pc = "streaming"
    /\ content => ad.ver < MaxDeltas
    /\ LET A == [ad EXCEPT !.stop = IF reason = "none" THEN @ ELSE map_finish_reason(reason),
                            !.ver = IF content THEN @ + 1 ELSE @]
           e == TextDeltaEvent(AssistantMessage(A.stop, <<>>, FALSE, A.ver))
       IN  IF content THEN adStep(adPush(es, e), adAccepted(es, e), A)
           ELSE adStep(es, <<>>, A)

\* The response is exhausted (openai.py:251), then finally (261-262).
AdDone ==
    /\ ad.pc = "streaming"
    /\ LET e == DoneEvent(ad.stop, AssistantMessage(ad.stop, <<>>, TRUE, ad.ver))
       IN  adStep(end(adPush(es, e), <<>>), adAccepted(es, e), [ad EXCEPT !.pc = "ended"])

\* Anything in the try block raises: no API key, no httpx, a failed
\* request, a line that is not JSON.
AdRaises ==
    /\ ad.pc \in {"created", "streaming"}
    /\ adFail("error")

\* The task is cancelled while it awaits the response.
AdCancelled ==
    /\ ad.pc = "streaming"
    /\ adFail("aborted")

InitAdapter ==
    /\ es = NewStream
    /\ esIn = <<>>
    /\ esOut = <<>>
    /\ esHalted = FALSE
    /\ esCalls = 0
    /\ esGot = <<>>
    /\ ad = [NoAdapter EXCEPT !.pc = "created"]
    /\ bo = NoBackoff
    /\ drained = <<>>
    /\ ex = NoExecutor
    /\ reg = NoRegistry
    /\ idle = NoWaiter
    /\ call = NoCall
    /\ act = NoActs
    /\ steeringQueue = <<>>
    /\ followUpQueue = <<>>
    /\ steeringMode = "one-at-a-time"
    /\ followUpMode = "one-at-a-time"
    /\ nSteer = 0
    /\ nFollowUp = 0
    /\ InitAgentVars

NextAdapter ==
    \/ AdStart
    \/ \E reason \in FinishReasons, content \in BOOLEAN : AdChunk(reason, content)
    \/ AdDone
    \/ AdRaises
    \/ AdCancelled
    \/ ESNext
    \/ ESResult

SpecAdapter == InitAdapter /\ [][NextAdapter]_vars

\* ------------------------- SpecAdapters: the adapter tasks of two adapters
\* ad.api names the adapter whose _run task ad is; ad.pc is "scheduled"
\* when asyncio.create_task(_run()) was called and _run has not run yet,
\* "crashed" when _run ended with an exception that left it.
AdapterApis == {"openai-completions", "zhipu-chat"}

\* _run builds its output message.  stream_openai_completions passes the
\* stop reason as a string (openai.py:77-93).  stream_zhipu evaluates
\* StopReason.stop (zhipu.py:81), and StopReason is the typing.Literal of
\* pi_ai/types.py:11: AttributeError, raised before the try block of
\* zhipu.py:85, ends the task; nothing is pushed and the stream is not ended.
AdBuildsOutput ==
    /\ ad.pc = "scheduled"
    /\ adStep(es, <<>>, [ad EXCEPT !.pc = IF ad.api = "zhipu-chat"
                                           THEN "crashed" ELSE "created"])

InitAdapters ==
    /\ es = NewStream
    /\ esIn = <<>>
    /\ esOut = <<>>
    /\ esHalted = FALSE
    /\ esCalls = 0
    /\ esGot = <<>>
    /\ ad \in {[NoAdapter EXCEPT !.pc = "scheduled", !.api = api] : api \in AdapterApis}
    /\ bo = NoBackoff
    /\ drained = <<>>
    /\ ex = NoExecutor
    /\ reg = NoRegistry
    /\ idle = NoWaiter
    /\ call = NoCall
    /\ act = NoActs
    /\ steeringQueue = <<>>
    /\ followUpQueue = <<>>
    /\ steeringMode = "one-at-a-time"
    /\ followUpMode = "one-at-a-time"
    /\ nSteer = 0
    /\ nFollowUp = 0
    /\ InitAgentVars

NextAdapters ==
    \/ AdBuildsOutput
    \/ NextAdapter

SpecAdapters == InitAdapters /\ [][NextAdapters]_vars

\* The event loop runs the adapter's task and the consumer's tasks, and the
\* response of the provider comes to an end.
SpecAdaptersFair ==
    /\ SpecAdapters
    /\ WF_vars(AdBuildsOutput)
    /\ WF_vars(AdStart)
    /\ WF_vars(AdDone)
    /\ WF_vars(ESNext)
    /\ WF_vars(ESResult)

\* ------------------------------------- SpecQueues: the Agent's two queues
InitQueues ==
    /\ es = NewStream
    /\ esIn = <<>>
    /\ esOut = <<>>
    /\ esHalted = FALSE
    /\ esCalls = 0
    /\ InitSolo
    /\ act = NoActs
    /\ steeringQueue = <<>>
    /\ followUpQueue = <<>>
    /\ steeringMode = "one-at-a-time"
    /\ followUpMode = "one-at-a-time"
    /\ nSteer = 0
    /\ nFollowUp = 0
    /\ InitAgentVars

\* What a step on the queues leaves alone.
queueStep ==
    /\ UNCHANGED <<es, esIn, esOut, esHalted, esCalls, esGot, ad, bo, ex, reg, idle, call, act>>
    /\ UNCHANGED <<nSteer, nFollowUp, agentVars>>

\* Agent.steer(m) (agent.py:139-140).
QSteer(m) ==
    /\ Len(steeringQueue) < MaxQueue
    /\ steeringQueue' = Append(steeringQueue, m)
    /\ UNCHANGED <<followUpQueue, steeringMode, followUpMode, drained>>
    /\ queueStep

\* Agent.follow_up(m) (agent.py:142-143).
QFollowUp(m) ==
    /\ Len(followUpQueue) < MaxQueue
    /\ followUpQueue' = Append(followUpQueue, m)
    /\ UNCHANGED <<steeringQueue, steeringMode, followUpMode, drained>>
    /\ queueStep

\* Agent.set_steering_mode(mode) (agent.py:118-119).
set_steering_mode(mode) ==
    /\ steeringMode' = mode
    /\ UNCHANGED <<steeringQueue, followUpQueue, followUpMode, drained>>
    /\ queueStep

\* Agent.set_follow_up_mode(mode) (agent.py:124-125).
set_follow_up_mode(mode) ==
    /\ followUpMode' = mode
    /\ UNCHANGED <<steeringQueue, followUpQueue, steeringMode, drained>>
    /\ queueStep

\* Agent._dequeue_steering_messages() (agent.py:158-167).
DrainSteering ==
    /\ drained' = dequeued(steeringQueue, steeringMode)
    /\ steeringQueue' = remaining(steeringQueue, steeringMode)
    /\ UNCHANGED <<followUpQueue, steeringMode, followUpMode>>
    /\ queueStep

\* Agent._dequeue_follow_up_messages() (agent.py:169-178).
DrainFollowUp ==
    /\ drained' = dequeued(followUpQueue, followUpMode)
    /\ followUpQueue' = remaining(followUpQueue, followUpMode)
    /\ UNCHANGED <<steeringQueue, steeringMode, followUpMode>>
    /\ queueStep

\* The messages passed to steer() and to follow_up() in SpecQueues.
SteerMessages == {UserMessage(10), UserMessage(11)}
FollowUpMessages == {UserMessage(20), UserMessage(21)}

NextQueues ==
    \/ \E m \in SteerMessages : QSteer(m)
    \/ \E m \in FollowUpMessages : QFollowUp(m)
    \/ \E mode \in Modes : set_steering_mode(mode)
    \/ \E mode \in Modes : set_follow_up_mode(mode)
    \/ DrainSteering
    \/ DrainFollowUp

SpecQueues == InitQueues /\ [][NextQueues]_vars

\* ------------------------------------ SpecBackoff: the waits of a retry loop
\* config.retry_delay_ms and config.max_retry_delay_ms (0 stands for None)
\* of the configurations tried, and the values random.randint(0, 1000) takes.
RetryDelays == {10, 1000}
MaxRetryDelays == {0, 2000, 60000}
Jitters == {0, 500, 1000}

\* _exponential_backoff (loop.py:515-530): the delay in ms computed from the
\* attempt number, the base delay and the jitter drawn.
exponential_backoff_delay(attempt, base_delay_ms, jitter) ==
    base_delay_ms * (2 ^ attempt) + jitter

\* _stream_assistant_response with a configuration whose attempts all fail
\* with a timeout or a rate-limit error: bo.attempt is the loop variable and
\* bo.waits (ghost) the time in ms each backoff has waited.
InitBackoff ==
    /\ es = NewStream
    /\ esIn = <<>>
    /\ esOut = <<>>
    /\ esHalted = FALSE
    /\ esCalls = 0
    /\ esGot = <<>>
    /\ ad = NoAdapter
    /\ \E d \in RetryDelays, c \in MaxRetryDelays :
          bo = [pc |-> "retrying", attempt |-> 0, retry_delay_ms |-> d,
                max_retry_delay_ms |-> c, waits |-> <<>>]
    /\ drained = <<>>
    /\ ex = NoExecutor
    /\ reg = NoRegistry
    /\ idle = NoWaiter
    /\ call = NoCall
    /\ act = NoActs
    /\ steeringQueue = <<>>
    /\ followUpQueue = <<>>
    /\ steeringMode = "one-at-a-time"
    /\ followUpMode = "one-at-a-time"
    /\ nSteer = 0
    /\ nFollowUp = 0
    /\ InitAgentVars

\* loop.py:266-279: the attempt failed and a retry is left; the loop awaits
\* _exponential_backoff(attempt, retry_delay_ms, cancel_event), which waits
\* the delay, or returns at once when the cancel_event is already set.
BackoffWait(jitter, cancelled) ==
    /\ bo.pc = "retrying"
    /\ bo.attempt < max_retries
    /\ LET delay_ms == exponential_backoff_delay(bo.attempt, bo.retry_delay_ms, jitter)
       IN  bo' = [bo EXCEPT !.attempt = @ + 1,
                            !.waits = Append(@, IF cancelled THEN 0 ELSE delay_ms)]
    /\ UNCHANGED <<es, esIn, esOut, esHalted, esCalls, esGot, ad, drained, ex, reg, idle, call, act>>
    /\ UNCHANGED <<queueVars, agentVars>>

\* The last attempt failed as well: the retry loop is left (loop.py:251, 285).
BackoffExhausted ==
    /\ bo.pc = "retrying"
    /\ bo.attempt = max_retries
    /\ bo' = [bo EXCEPT !.pc = "exhausted"]
    /\ UNCHANGED <<es, esIn, esOut, esHalted, esCalls, esGot, ad, drained, ex, reg, idle, call, act>>
    /\ UNCHANGED <<queueVars, agentVars>>

NextBackoff ==
    \/ \E jitter \in Jitters, cancelled \in BOOLEAN : BackoffWait(jitter, cancelled)
    \/ BackoffExhausted

SpecBackoff == InitBackoff /\ [][NextBackoff]_vars

\* ------------------------- SpecExecutor: one call of _execute_tool_calls
\* Number of tool calls in the assistant message handed to the executor.
MaxBatch == 3

\* The names a tool call may carry and the names of context.tools.
ToolNames == {"echo", "nope"}
Catalog == {"echo"}

\* The batches tried: tool call i has id i.
Batches ==
    UNION {{[i \in 1 .. n |-> ToolCall(i, f[i])] : f \in [1 .. n -> ToolNames]} :
           n \in 1 .. MaxBatch}

ToolExecutionStartEvent(tool_call) ==
    [type |-> "tool_execution_start", tool_call_id |-> tool_call.id,
     tool_name |-> tool_call.name]

\* text stands for the text of result["content"].
ToolExecutionEndEvent(tool_call, is_error, text) ==
    [type |-> "tool_execution_end", tool_call_id |-> tool_call.id,
     tool_name |-> tool_call.name, is_error |-> is_error, text |-> text]

\* The ToolResultMessage of a call, with the text of its content.
ToolResultOf(tool_call, is_error, text) ==
    [role |-> "toolResult", tool_call_id |-> tool_call.id,
     tool_name |-> tool_call.name, is_error |-> is_error, text |-> text]

\* How an awaited tool.execute(...) ends, and the result built from it
\* (loop.py:408-437).
Outcomes == {"returns", "TimeoutError", "CancelledError", "Exception"}
outcome_is_error(o) == o # "returns"
outcome_text(o) ==
    CASE o = "returns" -> "result"
      [] o = "TimeoutError" -> "timed out"
      [] o = "CancelledError" -> "Tool execution was cancelled"
      [] o = "Exception" -> "str(e)"

\* What the steering hook may return when polled after a call.
Steerings == {<<>>, <<UserMessage(10)>>}

\* ex.pc: called (nothing has run yet), executing (awaiting tool.execute at
\* loop.py:409/414), polling (awaiting get_steering_messages at loop.py:462),
\* returned.  index is the loop variable (from 1), trace the events pushed,
\* results and steering_messages the two values returned; executed (ghost)
\* lists the ids execute() was invoked for, and cancelIndex, cancelPc
\* (ghost) tell where the executor was when cancel_event was first set.
NewExecutor(calls) ==
    [calls |-> calls, pc |-> "called", cancel |-> FALSE, trace |-> <<>>,
     index |-> 1, results |-> <<>>, steering_messages |-> <<>>,
     executed |-> <<>>, cancelIndex |-> 0, cancelPc |-> "none"]

exPush(E, e) == [E EXCEPT !.trace = Append(@, e)]

\* loop.py:439-459: the call has its result.
finish_call(E, tool_call, is_error, text) ==
    LET m == ToolResultOf(tool_call, is_error, text)
        E1 == exPush(E, ToolExecutionEndEvent(tool_call, is_error, text))
        E2 == exPush(exPush(E1, MessageStartEvent(m)), MessageEndEvent(m))
    IN  [E2 EXCEPT !.results = Append(@, m)]

\* loop.py:370-416: from the head of the for loop to the next await.  A call
\* whose tool is missing raises ValueError inside the try block and has its
\* error result at once; the hook is polled next.
loop_head(E) ==
    IF E.index > Len(E.calls) \/ E.cancel THEN [E EXCEPT !.pc = "returned"]
    ELSE LET tool_call == E.calls[E.index]
             E1 == exPush(E, ToolExecutionStartEvent(tool_call))
         IN  IF tool_call.name \notin Catalog
             THEN [finish_call(E1, tool_call, TRUE, "not found") EXCEPT !.pc = "polling"]
             ELSE [E1 EXCEPT !.pc = "executing", !.executed = Append(@, tool_call.id)]

RECURSIVE skip_tool_calls(_, _)
\* loop.py:465-467 with _skip_tool_call (loop.py:473-512) for the calls from i on.
skip_tool_calls(E, i) ==
    IF i > Len(E.calls) THEN E
    ELSE LET tool_call == E.calls[i]
             E1 == exPush(E, ToolExecutionStartEvent(tool_call))
         IN  skip_tool_calls(
                 finish_call(E1, tool_call, TRUE, "Skipped due to queued user message."),
                 i + 1)

InitExecutor ==
    /\ es = NewStream
    /\ esIn = <<>>
    /\ esOut = <<>>
    /\ esHalted = FALSE
    /\ esCalls = 0
    /\ esGot = <<>>
    /\ ad = NoAdapter
    /\ bo = NoBackoff
    /\ drained = <<>>
    /\ \E calls \in Batches : ex = NewExecutor(calls)
    /\ reg = NoRegistry
    /\ idle = NoWaiter
    /\ call = NoCall
    /\ act = NoActs
    /\ steeringQueue = <<>>
    /\ followUpQueue = <<>>
    /\ steeringMode = "one-at-a-time"
    /\ followUpMode = "one-at-a-time"
    /\ nSteer = 0
    /\ nFollowUp = 0
    /\ InitAgentVars

\* What a step of the executor leaves alone.
executorStep ==
    /\ UNCHANGED <<es, esIn, esOut, esHalted, esCalls, esGot, ad, bo, drained, reg, idle, call, act>>
    /\ UNCHANGED <<queueVars, agentVars>>

\* _execute_tool_calls runs up to its first await.
ExStart ==
    /\ ex.pc = "called"
    /\ ex' = loop_head(ex)
    /\ executorStep

\* The awaited tool.execute(...) ends with outcome o (loop.py:408-459).
ExToolEnds(o) ==
    /\ ex.pc = "executing"
    /\ ex' = [finish_call(ex, ex.calls[ex.index], outcome_is_error(o), outcome_text(o))
                EXCEPT !.pc = "polling"]
    /\ executorStep

\* get_steering_messages() returns steering (loop.py:461-468), then the
\* next pass of the for loop up to its next await.
ExPoll(steering) ==
    /\ ex.pc = "polling"
    /\ ex' = IF Len(steering) > 0
             THEN [skip_tool_calls([ex EXCEPT !.steering_messages = steering], ex.index + 1)
                     EXCEPT !.pc = "returned"]
             ELSE loop_head([ex EXCEPT !.index = @ + 1])
    /\ executorStep

\* Somebody sets the cancel_event the executor was given.
ExCancel ==
    /\ ex.pc \in {"executing", "polling"}
    /\ ~ex.cancel
    /\ ex' = [ex EXCEPT !.cancel = TRUE, !.cancelIndex = ex.index, !.cancelPc = ex.pc]
    /\ executorStep

NextExecutor ==
    \/ ExStart
    \/ \E o \in Outcomes : ExToolEnds(o)
    \/ \E steering \in Steerings : ExPoll(steering)
    \/ ExCancel

SpecExecutor == InitExecutor /\ [][NextExecutor]_vars

\* ----------------------------------- SpecRegistry: the adapter registries
\* Number of calls made on pi_ai.registry.
MaxRegOps == 4

\* The api tags registered by pi_ai/providers/__init__.py:54-124, each with
\* the source_id it is registered under.
BuiltinSources ==
    [api \in {"openai-completions", "anthropic-messages", "google-generative-ai",
              "zhipu-chat", "mistral-chat", "xai-chat", "openrouter-chat",
              "azure-openai-responses"} |->
        CASE api = "openai-completions" -> "openai"
          [] api = "anthropic-messages" -> "anthropic"
          [] api = "google-generative-ai" -> "google"
          [] api = "zhipu-chat" -> "zhipu"
          [] api = "mistral-chat" -> "mistral"
          [] api = "xai-chat" -> "xai"
          [] api = "openrouter-chat" -> "openrouter"
          [] api = "azure-openai-responses" -> "azure-openai"]
BuiltinApis == DOMAIN BuiltinSources

\* An ApiProvider: its api tag and its stream function.
Provider(api, stream) == <<api, stream>>

\* The providers and source ids the registry is called with; "None" is the
\* default of register_api_provider's source_id.
Providers == {Provider(api, stream) : api \in {"openai-completions", "plugin-api"},
                                      stream \in {"f", "g"}}
Apis == {provider[1] : provider \in Providers}
SourceIds == {"s1", "s2"}

EmptyRegistry == [api \in {} |-> <<>>]

\* reg.entries is _registry of pi_ai/registry.py, reg.builtin is _registry of
\* pi_ai/providers/__init__.py, reg.imported tells whether the providers
\* package has been imported; reg.log (ghost) lists the calls made on
\* pi_ai.registry.
InitRegistry ==
    /\ es = NewStream
    /\ esIn = <<>>
    /\ esOut = <<>>
    /\ esHalted = FALSE
    /\ esCalls = 0
    /\ esGot = <<>>
    /\ ad = NoAdapter
    /\ bo = NoBackoff
    /\ drained = <<>>
    /\ ex = NoExecutor
    /\ reg = [log |-> <<>>, entries |-> EmptyRegistry, builtin |-> EmptyRegistry,
              imported |-> FALSE]
    /\ idle = NoWaiter
    /\ call = NoCall
    /\ act = NoActs
    /\ steeringQueue = <<>>
    /\ followUpQueue = <<>>
    /\ steeringMode = "one-at-a-time"
    /\ followUpMode = "one-at-a-time"
    /\ nSteer = 0
    /\ nFollowUp = 0
    /\ InitAgentVars

\* What a step on the registries leaves alone.
registryStep ==
    /\ UNCHANGED <<es, esIn, esOut, esHalted, esCalls, esGot, ad, bo, drained, ex, idle, call, act>>
    /\ UNCHANGED <<queueVars, agentVars>>

\* The module body of pi_ai/providers/__init__.py: its own
\* register_api_provider (lines 26-31) fills its own _registry (line 23).
import_providers ==
    /\ ~reg.imported
    /\ reg' = [reg EXCEPT !.builtin = [api \in BuiltinApis |->
                                          <<Provider(api, "builtin"), BuiltinSources[api]>>],
                          !.imported = TRUE]
    /\ registryStep

\* A registration that leaves an existing entry of the tag in place.
register_api_provider_keeps_first(provider, source_id) ==
    /\ Len(reg.log) < MaxRegOps
    /\ reg' = [reg EXCEPT !.entries = @ @@ (provider[1] :> <<provider, source_id>>),
                          !.log = Append(@, <<"register", provider, source_id>>)]
    /\ registryStep

\* pi_ai.registry.register_api_provider(provider, source_id) (registry.py:17-24).
register_api_provider(provider, source_id) ==
    /\ Len(reg.log) < MaxRegOps
    /\ reg' = [reg EXCEPT !.entries = (provider[1] :> <<provider, source_id>>) @@ @,
                          !.log = Append(@, <<"register", provider, source_id>>)]
    /\ registryStep

\* pi_ai.registry.unregister_api_providers(source_id) (registry.py:36-40).
unregister_api_providers(source_id) ==
    /\ Len(reg.log) < MaxRegOps
    /\ LET to_remove == {api \in DOMAIN reg.entries : reg.entries[api][2] = source_id}
       IN  reg' = [reg EXCEPT !.entries = [api \in DOMAIN @ \ to_remove |-> @[api]],
                             !.log = Append(@, <<"unregister", source_id>>)]
    /\ registryStep

\* pi_ai.registry.clear_api_providers() (registry.py:43-45).
clear_api_providers ==
    /\ Len(reg.log) < MaxRegOps
    /\ reg' = [reg EXCEPT !.entries = EmptyRegistry, !.log = Append(@, <<"clear">>)]
    /\ registryStep

\* pi_ai.registry.get_api_provider(api) (registry.py:27-29); <<>> for None.
get_api_provider(api) ==
    IF api \in DOMAIN reg.entries THEN reg.entries[api][1] ELSE <<>>

\* pi_ai.stream._resolve_api_provider(api) (stream.py:8-12), the lookup of
\* stream() and stream_simple().
resolve_api_provider(api) ==
    IF get_api_provider(api) = <<>>
    THEN <<"ValueError", "No API provider registered for api", api>>
    ELSE get_api_provider(api)

NextRegistry ==
    \/ import_providers
    \/ \E provider \in Providers, source_id \in SourceIds \cup {"None"} :
          register_api_provider(provider, source_id)
    \/ \E source_id \in SourceIds : unregister_api_providers(source_id)
    \/ clear_api_providers

SpecRegistry == InitRegistry /\ [][NextRegistry]_vars


\* --------------------------- SpecHelpers: the pure helpers of the adapters
\* call: [result, pc, fn, arg, again]; pc is "called" while the helper fn
\* runs on arg and "returned" once result holds what it returned.  again
\* marks a call whose argument is the result of the call before.
\* Strings are sequences of one-character strings.

\* Length of the tool-call ids handed to the normalisers.
MaxIdLen == 10

\* The characters of those ids; "-" is the one str.isalnum() rejects.
Chars == {"a", "A", "-"}

isalnum(c) == c # "-"

ToolIds == UNION {[1 .. n -> Chars] : n \in 0 .. MaxIdLen}

\* padding = "ABCDEFGHI"
padding == <<"A", "B", "C", "D", "E", "F", "G", "H", "I">>

\* A normaliser that appends the whole padding and does not truncate.
normalize_pads_whole(tool_id) ==
    SelectSeq(tool_id, isalnum) \o padding

\* normalize_mistral_tool_id(tool_id) (providers/openai.py:39-46).
normalize_mistral_tool_id(tool_id) ==
    LET normalized == SelectSeq(tool_id, isalnum)
    IN  IF Len(normalized) < 9
        THEN normalized \o SubSeq(padding, 1, 9 - Len(normalized))
        ELSE IF Len(normalized) > 9
        THEN SubSeq(normalized, 1, 9)
        ELSE normalized

\* normalize_tool_id(tool_id) (providers/mistral.py:37-45).
normalize_tool_id(tool_id) ==
    LET normalized == SelectSeq(tool_id, isalnum)
    IN  IF Len(normalized) < 9
        THEN normalized \o SubSeq(padding, 1, 9 - Len(normalized))
        ELSE IF Len(normalized) > 9
        THEN SubSeq(normalized, 1, 9)
        ELSE normalized

Normalisers == {"normalize_mistral_tool_id", "normalize_tool_id"}

\* UsageCost and Usage (pi_ai/types.py:116-132).  Costs are kept in
\* millionths of the currency unit, which makes them integers: a rate of r
\* per million tokens costs r millionths per token.
UsageCost(input, output, cache_read, cache_write, total) ==
    [input |-> input, output |-> output, cache_read |-> cache_read,
     cache_write |-> cache_write, total |-> total]

Usage(input, output, cache_read, cache_write, total_tokens, cost) ==
    [input |-> input, output |-> output, cache_read |-> cache_read,
     cache_write |-> cache_write, total_tokens |-> total_tokens, cost |-> cost]

\* The usage an adapter gives its output message at first
\* (openai.py:84-91, anthropic.py:100-107).
NewUsage == Usage(0, 0, 0, 0, 0, UsageCost(0, 0, 0, 0, 0))

\* Model.cost (pi_ai/types.py:299-304), the rates per million tokens: a
\* free model and a priced one.
ModelCosts ==
    { [input |-> 0, output |-> 0, cache_read |-> 0, cache_write |-> 0],
      [input |-> 3, output |-> 15, cache_read |-> 1, cache_write |-> 4] }

\* calculate_cost(model, usage) (models.py:32-44).
calculate_cost(model, usage) ==
    UsageCost(model.cost.input * usage.input,
              model.cost.output * usage.output,
              model.cost.cache_read * usage.cache_read,
              model.cost.cache_write * usage.cache_write,
              model.cost.input * usage.input + model.cost.output * usage.output
                + model.cost.cache_read * usage.cache_read
                + model.cost.cache_write * usage.cache_write)

\* The "usage" object of a line of the provider's response; a missing key
\* reads as 0 (openai.py:152-160).
UsageData ==
    { [total_tokens |-> i + o, prompt_tokens |-> i, completion_tokens |-> o,
       cached_tokens |-> c] : i \in {0, 2, 5}, o \in {0, 7}, c \in {0, 1} }

\* openai.py:151-163: the adapter sees usage_data while its output message
\* holds usage.  The cost argument is evaluated before the assignment, on
\* the usage the message still holds; the result of the second
\* calculate_cost call is discarded.
openai_usage(model, usage, usage_data) ==
    Usage(usage_data.prompt_tokens, usage_data.completion_tokens,
          usage_data.cached_tokens, 0, usage_data.total_tokens,
          calculate_cost(model, usage))

\* anthropic.py:250-257: the usage stream_anthropic_messages gives its
\* output message on message_stop.
anthropic_stop_usage(model, usage) ==
    Usage(0, 0, 0, 0, 0, calculate_cost(model, usage))

\* _map_anthropic_stop_reason (anthropic.py:276-282).
map_anthropic_stop_reason(reason) ==
    CASE reason = "end_turn" -> "stop"
      [] reason = "max_tokens" -> "length"
      [] reason = "stop_sequence" -> "toolUse"
      [] OTHER -> "stop"

\* _map_google_stop_reason (google.py:300-307).
map_google_stop_reason(reason) ==
    CASE reason = "STOP" -> "stop"
      [] reason = "MAX_TOKENS" -> "length"
      [] reason = "SAFETY" -> "toolUse"
      [] reason = "RECITATION" -> "stop"
      [] OTHER -> "stop"

\* The three mappings, and the stop codes they are applied to: the codes the
\* three providers send and one that none of them knows.
StopMappers == {"_map_finish_reason", "_map_anthropic_stop_reason", "_map_google_stop_reason"}

StopCodes ==
    {"stop", "length", "tool_calls", "content_filter",
     "end_turn", "max_tokens", "stop_sequence", "tool_use",
     "STOP", "MAX_TOKENS", "SAFETY", "RECITATION", "other"}

\* Number of parts (text pieces and tool calls) of a provider response.
MaxParts == 3

\* The function names a response calls, and what each part of a response
\* is: a piece of text or a call of one of the functions.
FunctionNames == {"f", "g"}

PartKinds == {"text"} \cup FunctionNames

\* The id the provider gives the j-th tool call of a response: j letters,
\* so that the ids of one response differ, also once normalised.
ProviderId(j) == [i \in 1 .. j |-> "a"]

\* The number of tool calls among the first i parts.
CallsUpTo(kinds, i) == Cardinality({j \in 1 .. i : kinds[j] # "text"})

\* The parts of the response with the given kinds: the j-th tool call has
\* the provider id ProviderId(j) and the arguments {j}.
Parts(kinds) ==
    [i \in 1 .. Len(kinds) |->
        IF kinds[i] = "text"
        THEN [type |-> "text", text |-> <<"t">>]
        ELSE [type |-> "toolCall", id |-> ProviderId(CallsUpTo(kinds, i)),
              name |-> kinds[i], arguments |-> {CallsUpTo(kinds, i)}]]

Responses == {Parts(kinds) : kinds \in UNION {[1 .. n -> PartKinds] : n \in 1 .. MaxParts}}

\* content with a new block appended unless its last block, the adapter's
\* current_block, already has the type (openai.py:167-170, 203-212;
\* google.py:181-184, 220-229).
with_current_block(content, block) ==
    IF content = <<>> \/ content[Len(content)].type # block.type
    THEN Append(content, block)
    ELSE content

RECURSIVE openai_content(_, _)
\* stream_openai_completions handles the parts of a response
\* (openai.py:165-249): the content of its output message.  A tool call
\* writes its id, name and arguments into current_block.
openai_content(content, parts) ==
    IF parts = <<>> THEN content
    ELSE LET part == Head(parts)
             c == with_current_block(content,
                     IF part.type = "text" THEN [type |-> "text", text |-> <<>>]
                     ELSE [type |-> "toolCall", id |-> <<>>, name |-> "", arguments |-> {}])
             block == c[Len(c)]
         IN  openai_content(
                 [c EXCEPT ![Len(c)] =
                     IF part.type = "text"
                     THEN [block EXCEPT !.text = @ \o part.text]
                     ELSE [block EXCEPT !.id = normalize_mistral_tool_id(part.id),
                                        !.name = part.name,
                                        !.arguments = part.arguments]],
                 Tail(parts))

RECURSIVE google_content(_, _, _)
\* stream_google handles the parts of a response (google.py:175-247): a
\* function call gets the id {function_name}_{tool_call_counter}, here the
\* pair of the two, the module's counter is incremented, and the
\* arguments are merged into those of current_block.
google_content(content, parts, tool_call_counter) ==
    IF parts = <<>> THEN content
    ELSE LET part == Head(parts)
             c == with_current_block(content,
                     IF part.type = "text" THEN [type |-> "text", text |-> <<>>]
                     ELSE [type |-> "toolCall", id |-> <<>>, name |-> "", arguments |-> {}])
             block == c[Len(c)]
         IN  IF part.type = "text"
             THEN google_content([c EXCEPT ![Len(c)] = [block EXCEPT !.text = @ \o part.text]],
                                 Tail(parts), tool_call_counter)
             ELSE google_content(
                     [c EXCEPT ![Len(c)] =
                         [block EXCEPT !.id = <<part.name, tool_call_counter>>,
                                       !.name = part.name,
                                       !.arguments = @ \cup part.arguments]],
                     Tail(parts), tool_call_counter + 1)

\* The adapters whose handling of tool calls is modelled.
ContentBuilders == {"stream_openai_completions", "stream_google"}

UsageArgs(usages) ==
    {[model |-> [cost |-> c], usage |-> u, usage_data |-> d] :
        c \in ModelCosts, u \in usages, d \in UsageData}

NewCall(fn, arg) ==
    [result |-> <<>>, pc |-> "called", fn |-> fn, arg |-> arg, again |-> FALSE]

\* The calls made: every helper on every argument of its bounded domain.
Calls ==
    {NewCall(fn, arg) : fn \in Normalisers, arg \in ToolIds}
    \cup {NewCall("openai_usage", arg) : arg \in UsageArgs({NewUsage})}
    \cup {NewCall(fn, arg) : fn \in StopMappers, arg \in StopCodes}
    \cup {NewCall(fn, arg) : fn \in ContentBuilders, arg \in Responses}

\* What helper fn returns for arg.
apply(fn, arg) ==
    CASE fn = "normalize_mistral_tool_id" -> normalize_mistral_tool_id(arg)
      [] fn = "normalize_tool_id" -> normalize_tool_id(arg)
      [] fn = "_map_finish_reason" -> map_finish_reason(arg)
      [] fn = "_map_anthropic_stop_reason" -> map_anthropic_stop_reason(arg)
      [] fn = "_map_google_stop_reason" -> map_google_stop_reason(arg)
      [] fn = "stream_openai_completions" -> openai_content(<<>>, arg)
      [] fn = "stream_google" -> google_content(<<>>, arg, 0)
      [] fn = "openai_usage" -> openai_usage(arg.model, arg.usage, arg.usage_data)
      [] fn = "anthropic_stop_usage" -> anthropic_stop_usage(arg.model, arg.usage)

InitHelpers ==
    /\ es = NewStream
    /\ esIn = <<>>
    /\ esOut = <<>>
    /\ esHalted = FALSE
    /\ esCalls = 0
    /\ esGot = <<>>
    /\ ad = NoAdapter
    /\ bo = NoBackoff
    /\ drained = <<>>
    /\ ex = NoExecutor
    /\ reg = NoRegistry
    /\ idle = NoWaiter
    /\ call \in Calls
    /\ act = NoActs
    /\ steeringQueue = <<>>
    /\ followUpQueue = <<>>
    /\ steeringMode = "one-at-a-time"
    /\ followUpMode = "one-at-a-time"
    /\ nSteer = 0
    /\ nFollowUp = 0
    /\ InitAgentVars

helperStep ==
    /\ UNCHANGED <<es, esIn, esOut, esHalted, esCalls, esGot, ad, bo, drained, ex, reg, idle, act>>
    /\ UNCHANGED <<queueVars, agentVars>>

\* The helper returns.
HelperReturns ==
    /\ call.pc = "called"
    /\ call' = [call EXCEPT !.pc = "returned", !.result = apply(call.fn, call.arg)]
    /\ helperStep

\* The caller normalises the id it got back.
NormaliseAgain ==
    /\ call.pc = "returned"
    /\ call.fn \in Normalisers
    /\ ~call.again
    /\ call' = [call EXCEPT !.pc = "called", !.arg = call.result, !.result = <<>>,
                            !.again = TRUE]
    /\ helperStep

\* A later line of the response carries usage again: the message holds
\* the usage of the call before.
UsageSeenAgain ==
    /\ call.pc = "returned"
    /\ call.fn = "openai_usage"
    /\ ~call.again
    /\ \E arg \in UsageArgs({call.result}) :
          /\ arg.model = call.arg.model
          /\ call' = [NewCall("openai_usage", arg) EXCEPT !.again = TRUE]
    /\ helperStep

\* message_stop of the Anthropic stream: the message holds the usage that
\* message_start gave it, built as in openai_usage (anthropic.py:134-147).
AnthropicMessageStop ==
    /\ call.pc = "returned"
    /\ call.fn = "openai_usage"
    /\ ~call.again
    /\ call' = [NewCall("anthropic_stop_usage",
                        [call.arg EXCEPT !.usage = call.result]) EXCEPT !.again = TRUE]
    /\ helperStep

NextHelpers ==
    \/ HelperReturns
    \/ NormaliseAgain
    \/ UsageSeenAgain
    \/ AnthropicMessageStop

SpecHelpers == InitHelpers /\ [][NextHelpers]_vars

\* ------------------------------------------- SpecLoop: one direct activation
InitLoop ==
    /\ es = NewStream
    /\ esIn = <<>>
    /\ esOut = <<>>
    /\ esHalted = FALSE
    /\ esCalls = 0
    /\ InitSolo
    /\ act = NoActs
    /\ steeringQueue = <<>>
    /\ followUpQueue = <<>>
    /\ steeringMode \in Modes
    /\ followUpMode = "one-at-a-time"
    /\ nSteer = 0
    /\ nFollowUp = 0
    /\ InitAgentVars

\* The record of a loop task created over the given context and prompts.
newAct(context, prompts) ==
    [IdleAct EXCEPT !.pc = "created", !.ctx = context \o prompts,
                    !.new = prompts, !.cpc = "iterating"]

\* agent_loop(prompts, context, ...) is called (loop.py:54-79).
agent_loop(a, prompts, context) ==
    /\ act[a].pc = "none"
    /\ onlyAct(a, newAct(context, prompts))

\* The contexts agent_loop_continue is called with: empty, ending in a user
\* message, in an assistant message, in a tool result.
ContinueContexts ==
    { <<>>,
      <<UserMessage(0)>>,
      <<UserMessage(0), AssistantMessage("stop", <<>>, TRUE, 0)>>,
      <<UserMessage(0), AssistantMessage("toolUse", <<ToolCall(1, "echo")>>, TRUE, 0),
        ToolResultMessage(1, "echo", FALSE)>> }

\* An agent_loop_continue that only checks for an empty context.
agent_loop_continue_any_role(a, context) ==
    /\ act[a].pc = "none"
    /\ IF Len(context) = 0
       THEN /\ raised' = "ValueError"
            /\ UNCHANGED <<act, state, cancel_event, listenerLog, nAbort>>
            /\ UNCHANGED <<streamVars, queueVars>>
       ELSE onlyAct(a, newAct(context, <<>>))

\* agent_loop_continue(context, ...) is called (loop.py:82-109); it raises
\* ValueError, and starts nothing, on an empty context or a last assistant message.
agent_loop_continue(a, context) ==
    /\ act[a].pc = "none"
    /\ IF Len(context) = 0 \/ context[Len(context)].role = "assistant"
       THEN /\ raised' = "ValueError"
            /\ UNCHANGED <<act, state, cancel_event, listenerLog, nAbort>>
            /\ UNCHANGED <<streamVars, queueVars>>
       ELSE onlyAct(a, newAct(context, <<>>))

\* cancel_event.set(), with the ghost fields abortAt and nAborts.
setCancel(L) ==
    [L EXCEPT !.cancel = TRUE,
              !.abortAt = IF L.cancel THEN @ ELSE L.pc,
              !.nAborts = @ + 1]

\* The caller sets the activation's cancel_event.
CancelSet(a) ==
    /\ act[a].pc \notin {"none", "finished", "crashed"}
    /\ ~act[a].cancel
    /\ onlyAct(a, setCancel(act[a]))

\* Number of messages the caller of the loop queues behind its steering hook.
MaxLoopSteer == 2

\* The caller queues a message behind its steering hook.
LoopSteer ==
    /\ nSteer < MaxLoopSteer
    /\ steeringQueue' = Append(steeringQueue, UserMessage(10 + nSteer))
    /\ nSteer' = nSteer + 1
    /\ UNCHANGED <<followUpQueue, steeringMode, followUpMode, nFollowUp, act>>
    /\ UNCHANGED <<streamVars, agentVars>>

\* The caller's "async for event in stream" takes the next item
\* (EventStream.__anext__): a sentinel ends the iteration.
LoopConsume(a) ==
    /\ act[a].cpc = "iterating"
    /\ act[a].stream.q # <<>>
    /\ onlyAct(a, [act[a] EXCEPT !.stream.q = Tail(@),
                                 !.cpc = IF Head(act[a].stream.q) = SENTINEL
                                         THEN "returned" ELSE @])

NextLoop ==
    \/ agent_loop(1, <<UserMessage(1)>>, <<>>)
    \/ \E context \in ContinueContexts : agent_loop_continue(1, context)
    \/ LoopTaskStart(1)
    \/ SteeringPoll(1)
    \/ HookRaises(1)
    \/ LlmReturns(1)
    \/ LlmRateLimit(1)
    \/ LlmRaises(1)
    \/ LlmTimeout(1)
    \/ BackoffDone(1)
    \/ RespStart(1)
    \/ RespDelta(1)
    \/ RespDeltaRaises(1)
    \/ \E m \in FinalMessages : RespFinal(1, m)
    \/ CancelSet(1)
    \/ LoopSteer
    \/ LoopConsume(1)

SpecLoop == InitLoop /\ [][NextLoop]_vars

\* ------------- SpecResponse: an adapter and the loop reading its response
\* The task of stream_openai_completions pushes to the response stream es
\* while the loop task of activation 1 iterates over it in
\* _process_llm_response.  Every event of the adapter refers to the
\* adapter's one output object (partial=output, openai.py:125, 172-178):
\* the record kept in the queue is the value of that object at the push,
\* and what a reader finds behind event.partial is the object as it is when
\* it reads.

\* The adapter's output object as it is now.
adOutput == AssistantMessage(ad.stop, <<>>, ad.pc = "ended", ad.ver)

\* The loop task awaits the first event of the response that
\* stream_function has just returned (loop.py:259-264, 312).
InitResponse ==
    /\ es = NewStream
    /\ esIn = <<>>
    /\ esOut = <<>>
    /\ esHalted = FALSE
    /\ esCalls = 0
    /\ esGot = <<>>
    /\ ad = [NoAdapter EXCEPT !.pc = "created"]
    /\ bo = NoBackoff
    /\ drained = <<>>
    /\ ex = NoExecutor
    /\ reg = NoRegistry
    /\ idle = NoWaiter
    /\ call = NoCall
    /\ act = [NoActs EXCEPT ![1] = [newAct(<<>>, <<UserMessage(1)>>) EXCEPT !.pc = "streaming"]]
    /\ steeringQueue = <<>>
    /\ followUpQueue = <<>>
    /\ steeringMode = "one-at-a-time"
    /\ followUpMode = "one-at-a-time"
    /\ nSteer = 0
    /\ nFollowUp = 0
    /\ InitAgentVars

\* The loop's step on the response stream: the item is taken off the queue
\* (esOut is the ghost of the events read) and the loop task becomes L.
responseStep(L) ==
    /\ es' = [es EXCEPT !.q = Tail(@)]
    /\ esOut' = Append(esOut, Head(es.q))
    /\ setAct(1, L)
    /\ UNCHANGED <<esIn, esHalted, esCalls, esGot, ad, bo, drained, ex, reg, idle, call>>
    /\ UNCHANGED <<queueVars, agentVars>>

\* _process_llm_response handles the next event of the response
\* (loop.py:312-351).  For a StartEvent or a delta event it pushes
\* event.partial.model_copy(deep=True): a copy of the adapter's output as
\* it is at this moment.  For DoneEvent/ErrorEvent it takes the resolved
\* result and returns to loop.py:153-155, so the sentinel is never read.
\* raises: MessageUpdateEvent(...) raises ValidationError (see RespDeltaRaises).
ProcessResponseEvent(raises) ==
    /\ act[1].pc = "streaming"
    /\ es.q # <<>>
    /\ Head(es.q) # SENTINEL
    /\ LET event == Head(es.q)
           L0 == act[1]
           p  == adOutput
       IN  CASE event.type = "start" ->
                  /\ ~raises
                  /\ responseStep(emit([L0 EXCEPT !.partial = <<p>>, !.ctx = Append(@, p),
                                                   !.addedPartial = TRUE],
                                       MessageStartEvent(p)))
             [] event.type = "text_delta" ->
                  IF L0.partial = <<>>
                  THEN ~raises /\ responseStep(L0)
                  ELSE LET L1 == [L0 EXCEPT !.partial = <<p>>, !.nDelta = @ + 1,
                                            !.ctx = [@ EXCEPT ![Len(@)] = p]]
                       IN  IF raises THEN responseStep(crash(L1, "ValidationError"))
                           ELSE responseStep(emit(L1, MessageUpdateEvent(p)))
             [] event.type \in {"done", "error"} ->
                  /\ ~raises
                  /\ LET m  == es.res[1]
                         L1 == IF L0.addedPartial
                               THEN [L0 EXCEPT !.ctx = [@ EXCEPT ![Len(@)] = m]]
                               ELSE emit([L0 EXCEPT !.ctx = Append(@, m)], MessageStartEvent(m))
                     IN  responseStep(afterAssistant(emit(L1, MessageEndEvent(m)), m))

NextResponse ==
    \/ AdStart
    \/ \E reason \in FinishReasons, content \in BOOLEAN : AdChunk(reason, content)
    \/ AdDone
    \/ AdRaises
    \/ AdCancelled
    \/ \E raises \in BOOLEAN : ProcessResponseEvent(raises)

SpecResponse == InitResponse /\ [][NextResponse]_vars

\* ------------------------------------------------------- Spec: the Agent
\* agent.py:347-352: the error_message of the turn's assistant message, as
\* a sequence: <<>> when the message has none.
error_text(m) ==
    IF m.role = "assistant" /\ "error_message" \in DOMAIN m
    THEN <<m.error_message>>
    ELSE <<>>

\* Agent._run_loop, the body of "async for event in stream" for one event
\* (agent.py:322-358): D is [S, partial, log], the Agent state, the local
\* partial and the listeners' log.
handle(D, e) ==
    LET S1 == CASE e.type \in {"message_start", "message_update"} ->
                     [D.S EXCEPT !.stream_message = <<e.message>>]
                [] e.type = "message_end" ->
                     [D.S EXCEPT !.stream_message = <<>>, !.messages = Append(@, e.message)]
                [] e.type = "tool_execution_start" ->
                     [D.S EXCEPT !.pending_tool_calls = @ \cup {e.tool_call_id}]
                [] e.type = "tool_execution_end" ->
                     [D.S EXCEPT !.pending_tool_calls = @ \ {e.tool_call_id}]
                [] e.type = "turn_end" ->
                     IF error_text(e.message) # <<>>
                     THEN [D.S EXCEPT !.error = error_text(e.message)]
                     ELSE D.S
                [] e.type = "agent_end" ->
                     [D.S EXCEPT !.is_streaming = FALSE, !.stream_message = <<>>]
                [] OTHER -> D.S
        p1 == CASE e.type \in {"message_start", "message_update"} -> <<e.message>>
                [] e.type = "message_end" -> <<>>
                [] OTHER -> D.partial
    IN  [partial |-> p1, S |-> S1, log |-> Append(D.log, e)]

\* agent.py:360-408 once the iteration has ended: a partial left over with
\* content is appended; the finally block restores the idle state.
after_loop(D) ==
    LET S1 == IF D.partial # <<>> /\ D.partial[1].role = "assistant" /\ D.partial[1].ver > 0
              THEN [D.S EXCEPT !.messages = Append(@, D.partial[1])]
              ELSE D.S
    IN  [D EXCEPT !.S = [S1 EXCEPT !.is_streaming = FALSE, !.stream_message = <<>>,
                                   !.pending_tool_calls = {}]]

RECURSIVE consume(_, _)
\* "async for event in stream" run until queue.get() has to wait (the queue
\* is empty) or __anext__ raises StopAsyncIteration (a sentinel): get() does
\* not suspend while the queue holds an item.  Returns [D, q, halted].
consume(D, q) ==
    IF q = <<>> THEN [q |-> q, D |-> D, halted |-> FALSE]
    ELSE IF Head(q) = SENTINEL
         THEN [q |-> Tail(q), D |-> after_loop(D), halted |-> TRUE]
         ELSE consume(handle(D, Head(q)), Tail(q))

\* agent.py:407-408 in the finally block of an activation: the future that
\* self._running_prompt holds at that time is resolved.  cancel_event names
\* the activation whose _run_loop assigned both attributes last; when it is
\* None, self._running_prompt is resolved already.
resolve_running_prompt(A) ==
    IF cancel_event = 0 THEN A
    ELSE [A EXCEPT ![cancel_event].running_prompt = "done"]

\* The task inside Agent._run_loop of activation a is scheduled.
AgentConsume(a) ==
    /\ act[a].cpc = "iterating"
    /\ act[a].stream.q # <<>>
    /\ LET r == consume([partial |-> act[a].cpartial, S |-> state, log |-> listenerLog],
                        act[a].stream.q)
       IN  /\ state' = r.D.S
           /\ listenerLog' = r.D.log
           /\ LET A == [act EXCEPT ![a].stream.q = r.q, ![a].cpartial = r.D.partial,
                                    ![a].cpc = IF r.halted THEN "returned" ELSE "iterating"]
              IN  act' = IF r.halted THEN resolve_running_prompt(A) ELSE A
           /\ cancel_event' = IF r.halted THEN 0 ELSE cancel_event
    /\ UNCHANGED <<raised, nAbort>>
    /\ UNCHANGED <<streamVars, queueVars>>

\* The activation slot the next _run_loop uses; MaxActs + 1 when none is
\* left, and then no further activation is started.
nextSlot ==
    IF \E a \in Acts : act[a].pc = "none"
    THEN CHOOSE a \in Acts : act[a].pc = "none" /\ \A b \in Acts : b < a => act[b].pc # "none"
    ELSE MaxActs + 1

\* Agent._run_loop(messages) up to its first suspension (agent.py:263-321):
\* the effect on state, cancel_event and act.  A falsy messages list goes
\* to agent_loop_continue, whose ValueError is caught by the except block
\* (agent.py:377-400); building the error message there reads TextContent,
\* a name the import of agent.py:361 makes local to _run_loop and which is
\* still unbound: UnboundLocalError leaves the handler before anything is
\* appended or emitted, and the finally block restores the idle state.
run_loop(messages, skip_initial_steering_poll) ==
    LET a  == nextSlot
        S0 == [state EXCEPT !.is_streaming = TRUE, !.stream_message = <<>>, !.error = <<>>]
        continueFails == messages = <<>> /\ (state.messages = <<>>
                            \/ state.messages[Len(state.messages)].role = "assistant")
    IN  IF state.model = "None"
        THEN /\ raised' = "ValueError"
             /\ UNCHANGED <<act, state, cancel_event>>
        ELSE IF continueFails
        THEN /\ state' = [S0 EXCEPT !.is_streaming = FALSE, !.pending_tool_calls = {}]
             /\ cancel_event' = 0
             /\ raised' = "UnboundLocalError"
             /\ UNCHANGED act
        ELSE /\ a \in Acts
             /\ state' = S0
             /\ cancel_event' = a
             /\ raised' = "started"
             /\ setAct(a, [newAct(state.messages, messages)
                             EXCEPT !.skip = skip_initial_steering_poll,
                                    !.running_prompt = "pending"])

\* A prompt that checks pending_tool_calls instead of is_streaming.
promptChecksPending(input) ==
    /\ IF state.pending_tool_calls # {}
       THEN /\ raised' = "RuntimeError"
            /\ UNCHANGED <<act, state, cancel_event>>
       ELSE run_loop(input, FALSE)
    /\ UNCHANGED <<listenerLog, nAbort>>
    /\ UNCHANGED <<streamVars, queueVars>>

\* Agent.prompt(input) (agent.py:200-230).
prompt(input) ==
    /\ IF state.is_streaming
       THEN /\ raised' = "RuntimeError"
            /\ UNCHANGED <<act, state, cancel_event>>
       ELSE IF state.model = "None"
       THEN /\ raised' = "ValueError"
            /\ UNCHANGED <<act, state, cancel_event>>
       ELSE run_loop(input, FALSE)
    /\ UNCHANGED <<listenerLog, nAbort>>
    /\ UNCHANGED <<streamVars, queueVars>>

\* Agent.continue_() (agent.py:232-256).
continue_ ==
    /\ IF state.is_streaming
       THEN /\ raised' = "RuntimeError"
            /\ UNCHANGED <<act, state, cancel_event>>
            /\ UNCHANGED queueVars
       ELSE IF state.messages = <<>>
       THEN /\ raised' = "ValueError"
            /\ UNCHANGED <<act, state, cancel_event>>
            /\ UNCHANGED queueVars
       ELSE IF state.messages[Len(state.messages)].role = "assistant"
       THEN IF steeringQueue # <<>>
            THEN /\ steeringQueue' = remaining(steeringQueue, steeringMode)
                 /\ run_loop(dequeued(steeringQueue, steeringMode), TRUE)
                 /\ UNCHANGED <<followUpQueue, steeringMode, followUpMode, nSteer, nFollowUp>>
            ELSE IF followUpQueue # <<>>
            THEN /\ followUpQueue' = remaining(followUpQueue, followUpMode)
                 /\ run_loop(dequeued(followUpQueue, followUpMode), FALSE)
                 /\ UNCHANGED <<steeringQueue, steeringMode, followUpMode, nSteer, nFollowUp>>
            ELSE /\ raised' = "ValueError"
                 /\ UNCHANGED <<act, state, cancel_event>>
                 /\ UNCHANGED queueVars
       ELSE /\ run_loop(<<>>, FALSE)
            /\ UNCHANGED queueVars
    /\ UNCHANGED <<listenerLog, nAbort>>
    /\ UNCHANGED streamVars

\* An abort that clears the event it finds set.
abortToggles ==
    /\ nAbort < MaxAborts
    /\ nAbort' = nAbort + 1
    /\ IF cancel_event # 0
       THEN setAct(cancel_event, [act[cancel_event] EXCEPT !.cancel = ~@])
       ELSE UNCHANGED act
    /\ UNCHANGED <<state, cancel_event, listenerLog, raised>>
    /\ UNCHANGED <<streamVars, queueVars>>

\* Agent.abort() (agent.py:183-185).
abort ==
    /\ nAbort < MaxAborts
    /\ nAbort' = nAbort + 1
    /\ IF cancel_event # 0
       THEN setAct(cancel_event, setCancel(act[cancel_event]))
       ELSE UNCHANGED act
    /\ UNCHANGED <<state, cancel_event, listenerLog, raised>>
    /\ UNCHANGED <<streamVars, queueVars>>

\* Agent.reset() (agent.py:191-198).
reset ==
    /\ state' = [state EXCEPT !.messages = <<>>, !.is_streaming = FALSE,
                              !.stream_message = <<>>, !.pending_tool_calls = {},
                              !.error = <<>>]
    /\ steeringQueue' = <<>>
    /\ followUpQueue' = <<>>
    /\ UNCHANGED <<steeringMode, followUpMode, nSteer, nFollowUp, act>>
    /\ UNCHANGED <<cancel_event, listenerLog, raised, nAbort>>
    /\ UNCHANGED streamVars

\* Agent._run_loop._get_steering (agent.py:298-302), awaited at loop.py:130:
\* the assignment to skip_initial makes the name local to _get_steering, so
\* reading it in "if skip_initial" raises UnboundLocalError on every call;
\* the exception propagates out of the loop task.
get_steering(a) ==
    /\ act[a].pc = "poll_initial"
    /\ onlyAct(a, crash(act[a], "UnboundLocalError"))

InitAgent ==
    /\ es = NewStream
    /\ esIn = <<>>
    /\ esOut = <<>>
    /\ esHalted = FALSE
    /\ esCalls = 0
    /\ InitSolo
    /\ act = NoActs
    /\ steeringQueue = <<>>
    /\ followUpQueue = <<>>
    /\ steeringMode \in Modes
    /\ followUpMode = "one-at-a-time"
    /\ nSteer = 0
    /\ nFollowUp = 0
    /\ InitAgentVars

Init == InitAgent

\* The lists prompt() is called with: empty, or one new user message.
PromptInputs == {<<>>, <<UserMessage(nextSlot)>>}

Next ==
    \/ \E input \in PromptInputs : prompt(input)
    \/ continue_
    \/ steer(UserMessage(10 + nSteer))
    \/ follow_up(UserMessage(20 + nFollowUp))
    \/ abort
    \/ reset
    \/ \E a \in Acts : LoopTaskStart(a)
    \/ \E a \in Acts : get_steering(a)
    \/ \E a \in Acts : AgentConsume(a)

Spec == Init /\ [][Next]_vars

\* ------------------------- SpecConfig: the Agent under each configuration
InitConfig ==
    /\ es = NewStream
    /\ esIn = <<>>
    /\ esOut = <<>>
    /\ esHalted = FALSE
    /\ esCalls = 0
    /\ InitSolo
    /\ act = NoActs
    /\ steeringQueue = <<>>
    /\ followUpQueue = <<>>
    /\ steeringMode \in Modes
    /\ followUpMode = "one-at-a-time"
    /\ nSteer = 0
    /\ nFollowUp = 0
    /\ \E model \in Models : state = [NewAgentState EXCEPT !.model = model]
    /\ cancel_event = 0
    /\ listenerLog = <<>>
    /\ raised = "none"
    /\ nAbort = 0

SpecConfig == InitConfig /\ [][Next]_vars

\* ------------------------------ SpecHistory: the Agent, its history edited
\* Agent.append_message(m) (agent.py:136-137).
append_message(m) ==
    /\ Len(state.messages) < MaxAppend
    /\ state' = [state EXCEPT !.messages = Append(@, m)]
    /\ UNCHANGED <<act, cancel_event, listenerLog, raised, nAbort>>
    /\ UNCHANGED <<streamVars, queueVars>>

\* The messages the caller appends: an earlier answer of the model.
AppendMessages == {AssistantMessage("stop", <<>>, TRUE, 0)}

NextHistory ==
    \/ Next
    \/ \E m \in AppendMessages : append_message(m)

SpecHistory == Init /\ [][NextHistory]_vars

\* --------------------------- SpecListeners: the Agent with a raising listener
RECURSIVE handle_first(_, _, _)
\* The body of "async for event in stream" for the first k events of q.
handle_first(D, q, k) ==
    IF k = 0 THEN D ELSE handle_first(handle(D, Head(q)), Tail(q), k - 1)

RECURSIVE drop(_, _)
drop(q, k) == IF k = 0 THEN q ELSE drop(Tail(q), k - 1)

\* As AgentConsume, but the first subscribed listener raises when _emit
\* hands it the k-th event waiting in the queue (agent.py:358, 410-412).
\* The match statement has updated the state for that event; the exception
\* leaves _emit before any later listener is called, so the event is not
\* added to listenerLog, and ends the iteration.  The except block raises
\* UnboundLocalError at agent.py:382 (TextContent is a local of _run_loop,
\* bound only by the import of line 361) before it appends or emits
\* anything; the finally block restores the idle state and the exception
\* leaves prompt()/continue_().
ListenerRaises(a, k) ==
    /\ act[a].cpc = "iterating"
    /\ k \in 1 .. Len(BeforeSentinel(act[a].stream.q))
    /\ LET D0 == [partial |-> act[a].cpartial, S |-> state, log |-> listenerLog]
           D1 == handle_first(D0, act[a].stream.q, k - 1)
           D2 == handle(D1, act[a].stream.q[k])
       IN  /\ state' = [D2.S EXCEPT !.is_streaming = FALSE, !.stream_message = <<>>,
                                    !.pending_tool_calls = {}]
           /\ listenerLog' = D1.log
           /\ act' = resolve_running_prompt(
                        [act EXCEPT ![a].stream.q = drop(@, k), ![a].cpartial = D2.partial,
                                    ![a].cpc = "returned"])
    /\ cancel_event' = 0
    /\ raised' = "UnboundLocalError"
    /\ UNCHANGED nAbort
    /\ UNCHANGED <<streamVars, queueVars>>

\* The number of events a step of the Agent's task may find in the queue.
MaxWaiting == 4

NextListeners ==
    \/ Next
    \/ \E a \in Acts, k \in 1 .. MaxWaiting : ListenerRaises(a, k)

SpecListeners == Init /\ [][NextListeners]_vars


\* ------------------------------ SpecIdle: the Agent and wait_for_idle()
\* idle.pc: none (no call yet), waiting (suspended in "await
\* self._running_prompt", agent.py:189, on the future of activation
\* idle.fut), returned.
\* Agent.wait_for_idle() is called (agent.py:187-189): with no future, or
\* with one that is done, the call returns without waiting.
wait_for_idle ==
    /\ idle.pc \in {"none", "returned"}
    /\ idle' = IF cancel_event = 0
               THEN [pc |-> "returned", fut |-> 0]
               ELSE [pc |-> "waiting", fut |-> cancel_event]
    /\ UNCHANGED <<es, esIn, esOut, esHalted, esCalls, esGot, ad, bo, drained, ex, reg, call, act>>
    /\ UNCHANGED <<queueVars, agentVars>>

\* The awaited future is done: wait_for_idle() returns.
WaitForIdleResumes ==
    /\ idle.pc = "waiting"
    /\ act[idle.fut].running_prompt = "done"
    /\ idle' = [idle EXCEPT !.pc = "returned"]
    /\ UNCHANGED <<es, esIn, esOut, esHalted, esCalls, esGot, ad, bo, drained, ex, reg, call, act>>
    /\ UNCHANGED <<queueVars, agentVars>>

NextIdle ==
    \/ NextListeners
    \/ wait_for_idle
    \/ WaitForIdleResumes

SpecIdle == Init /\ [][NextIdle]_vars

\* The event loop runs every task that can run: the loop tasks, the
\* Agent's task and the task in wait_for_idle().
SpecIdleFair ==
    /\ SpecIdle
    /\ \A a \in Acts : WF_vars(LoopTaskStart(a)) /\ WF_vars(get_steering(a))
                        /\ WF_vars(AgentConsume(a))
    /\ WF_vars(WaitForIdleResumes)


\* ------------------------------------------------------------------ claims
\* C1: a prompt() or continue_() call made while state.is_streaming is true
\* raises RuntimeError at once and changes nothing: no activation is
\* started (act), no event reaches a listener, and messages, is_streaming,
\* pending_tool_calls, the two queues and the cancel token stay as they were.
C1_RejectedWhileStreaming ==
    [][ (state.is_streaming /\ ((\E input \in PromptInputs : prompt(input)) \/ continue_))
        => /\ raised' = "RuntimeError"
           /\ UNCHANGED <<act, state, cancel_event, listenerLog, steeringQueue,
                          followUpQueue, steeringMode, followUpMode>> ]_vars

\* A call was rejected while an activation was in flight.
C1_Witness ==
    /\ raised = "RuntimeError"
    /\ state.is_streaming
    /\ \E a \in Acts : act[a].pc # "none"

\* The pcs at which a loop task exists and has not ended.
Running == {"created", "poll_initial", "await_llm", "backoff", "streaming"}

\* C2: in every reachable state of the Agent, state.is_streaming is true if
\* and only if exactly one loop task is active.
C2_StreamingIffOneLoopTask ==
    state.is_streaming <=> Cardinality({a \in Acts : act[a].pc \in Running}) = 1

\* Number of events of the given type in a trace.
CountType(tr, ty) == Cardinality({k \in DOMAIN tr : tr[k].type = ty})

\* C3: however the loop task of an activation ends, its stream was given
\* agent_start exactly once, as the first event, and agent_end exactly once,
\* as the last event, and was ended, so that a consumer reaches the end.
C3_AgentStartFirstAgentEndLast ==
    \A a \in Acts : act[a].pc \in LoopOver =>
        LET tr == act[a].trace
        IN  /\ tr # <<>>
            /\ tr[1].type = "agent_start"
            /\ CountType(tr, "agent_start") = 1
            /\ tr[Len(tr)].type = "agent_end"
            /\ CountType(tr, "agent_end") = 1
            /\ act[a].stream.done

\* The turn grammar as an automaton over event types: s is the position in
\* the turn, id the tool call being executed, todo the tool calls of the
\* turn's assistant message not yet started.
ShapeStart == [s |-> "start", id |-> 0, todo |-> <<>>]

ShapeStep(st, e) ==
    LET t == e.type
    IN  CASE st.s = "start" /\ t = "agent_start" -> [st EXCEPT !.s = "idle"]
          [] st.s = "idle" /\ t = "turn_start" -> [st EXCEPT !.s = "injected"]
          [] st.s = "idle" /\ t = "agent_end" -> [st EXCEPT !.s = "end"]
          [] st.s = "injected" /\ t = "message_start" ->
                 [st EXCEPT !.s = IF e.message.role = "assistant" THEN "assistant" ELSE "injecting"]
          [] st.s = "injecting" /\ t = "message_end" -> [st EXCEPT !.s = "injected"]
          [] st.s = "assistant" /\ t = "message_update" -> st
          [] st.s = "assistant" /\ t = "message_end" ->
                 [st EXCEPT !.s = "tools", !.todo = e.message.calls]
          [] st.s = "tools" /\ t = "tool_execution_start" ->
                 IF st.todo # <<>> /\ e.tool_call_id = Head(st.todo).id
                 THEN [s |-> "tool", id |-> e.tool_call_id, todo |-> Tail(st.todo)]
                 ELSE [st EXCEPT !.s = "bad"]
          [] st.s = "tool" /\ t = "tool_execution_update" ->
                 IF e.tool_call_id = st.id THEN st ELSE [st EXCEPT !.s = "bad"]
          [] st.s = "tool" /\ t = "tool_execution_end" ->
                 IF e.tool_call_id = st.id THEN [st EXCEPT !.s = "result"]
                 ELSE [st EXCEPT !.s = "bad"]
          [] st.s = "result" /\ t = "message_start" ->
                 [st EXCEPT !.s = IF e.message.role = "toolResult" THEN "resulting" ELSE "bad"]
          [] st.s = "resulting" /\ t = "message_end" -> [st EXCEPT !.s = "tools"]
          [] st.s = "tools" /\ t = "turn_end" -> [st EXCEPT !.s = "idle"]
          [] OTHER -> [st EXCEPT !.s = "bad"]

RECURSIVE Shape(_)
Shape(tr) ==
    IF tr = <<>> THEN ShapeStart
    ELSE ShapeStep(Shape(SubSeq(tr, 1, Len(tr) - 1)), tr[Len(tr)])

\* C4: the events of an activation follow the turn grammar (turn_start,
\* injected messages, the assistant message, the tool calls one after the
\* other, one turn_end), and when the loop task has ended every turn_start
\* has its turn_end and the trace is closed by agent_end.
C4_TurnShape ==
    \A a \in Acts :
        /\ Shape(act[a].trace).s # "bad"
        /\ act[a].pc \in LoopOver => Shape(act[a].trace).s = "end"

\* C7: when the cancel event was set while the adapter was streaming, the
\* activation ends with an assistant message of stop_reason aborted in its
\* history, and turn_end then agent_end are the last events it pushed.
C7_AbortWhileStreamingEndsAborted ==
    \A a \in Acts : (act[a].abortAt = "streaming" /\ act[a].pc \in LoopOver) =>
        LET tr == act[a].trace
            h  == act[a].new
        IN  /\ h # <<>>
            /\ h[Len(h)].role = "assistant"
            /\ h[Len(h)].stop = "aborted"
            /\ Len(tr) >= 2
            /\ tr[Len(tr) - 1].type = "turn_end"
            /\ tr[Len(tr)].type = "agent_end"

\* C8: once abort() was called during activation a, its loop task has ended
\* and the Agent has taken every event the task pushed, the activation is
\* over: Agent._run_loop has returned and, unless a later activation owns
\* the Agent by then, is_streaming is false, pending_tool_calls is empty,
\* stream_message is unset and the cancel token is cleared.
C8_AbortLeavesAgentIdle ==
    \A a \in Acts :
        (act[a].nAborts > 0 /\ act[a].pc \in LoopOver /\ act[a].stream.q = <<>>) =>
            /\ act[a].cpc = "returned"
            /\ cancel_event \in {0, a} =>
                   /\ ~state.is_streaming
                   /\ state.pending_tool_calls = {}
                   /\ state.stream_message = <<>>
                   /\ cancel_event = 0

\* C9: an abort() call that finds the activation's cancel event already set
\* changes nothing the program can observe: the loop task, the stream, the
\* Agent state, the queues and the listeners' log are as without the call.
C9_RepeatedAbortChangesNothing ==
    [][ (abort /\ cancel_event # 0 /\ act[cancel_event].cancel)
        => /\ \A a \in Acts : [act'[a] EXCEPT !.nAborts = 0] = [act[a] EXCEPT !.nAborts = 0]
           /\ UNCHANGED <<state, cancel_event, listenerLog, raised, steeringQueue,
                          followUpQueue, steeringMode, followUpMode>> ]_vars

\* abort() was called twice during one activation.
C9_Witness ==
    \E a \in Acts : act[a].nAborts >= 2 /\ act[a].cancel

\* C10: what the consumer was handed so far, followed by what waits in the
\* queue before the sentinel, is at all times the list of events pushed
\* before completion, in push order and with the completing event; once the
\* stream is done the iteration halts, having yielded exactly that list.
C10_IterationYieldsPushedInOrder ==
    /\ [](esOut \o (IF esHalted THEN <<>> ELSE BeforeSentinel(es.q)) = esIn)
    /\ (es.done ~> (esHalted /\ esOut = esIn))

\* The iteration halted after yielding two events or more, the last of them
\* the completing event.
C10_Witness ==
    /\ esHalted
    /\ Len(esOut) >= 2
    /\ esOut[Len(esOut)].type = "fin"

\* C11: a push on a stream that is not done enqueues the event, and the
\* first completing one marks the stream done and resolves the result with
\* extract_result of that event; a push on a done stream (after a
\* completing event or after end()) changes nothing, so the consumer is
\* not handed the event; and a resolved result never changes again.
C11_FirstCompletingPushResolves ==
    /\ [](~es.done => es.res = <<>>)
    /\ [][\A e \in StreamEvents : ESPush(e) =>
            IF es.done
            THEN es' = es /\ esIn' = esIn
            ELSE IF is_complete(e)
                 THEN /\ es'.done
                      /\ es'.res = <<extract_result(e)>>
                      /\ es'.q = es.q \o <<e, SENTINEL>>
                 ELSE /\ ~es'.done
                      /\ es'.res = <<>>
                      /\ es'.q = Append(es.q, e)]_vars
    /\ [][es.res # <<>> => es'.res = es.res]_vars
    /\ [][esGot # <<>> => esGot' = esGot]_vars

\* The stream was completed by its first call, a completing push, two more
\* calls were made and dropped, and the consumer has not taken anything yet.
C11_Witness ==
    /\ es.q = <<[type |-> "fin", n |-> 0], SENTINEL>>
    /\ es.res = <<0>>
    /\ esOut = <<>>
    /\ esCalls >= 3

\* C12: once the stream has terminated (by a completing event, by end(r)
\* or by end()), a task awaiting result() is eventually resumed with the
\* result, whatever the consumer has iterated.
C12_ResultReturnsAfterTermination == es.done ~> (esGot # <<>>)

\* C13: once the adapter has ended its stream, the resolved result is the
\* assistant message carried by the last event the stream accepted, the
\* DoneEvent's message or the ErrorEvent's error, and that is what
\* "await result()" returns.
C13_ResultIsFinalEventMessage ==
    /\ ad.pc = "ended" =>
          /\ esIn # <<>>
          /\ esIn[Len(esIn)].type \in {"done", "error"}
          /\ es.res = <<IF esIn[Len(esIn)].type = "done"
                         THEN esIn[Len(esIn)].message ELSE esIn[Len(esIn)].error>>
    /\ esGot # <<>> => (ad.pc = "ended" /\ esGot = es.res)

\* A stream that ended with an ErrorEvent after a content delta, and whose
\* result() has returned.
C13_Witness ==
    /\ ad.pc = "ended"
    /\ ad.ver >= 1
    /\ esIn[Len(esIn)].type = "error"
    /\ esGot = <<esIn[Len(esIn)].error>>

\* C14: a call of agent_loop_continue raises ValueError, creating no task
\* and pushing no event, exactly when the context is empty or ends in an
\* assistant message; any other call creates a task over that context with
\* no new message, and the task's first step pushes agent_start and
\* turn_start only: no prompt message is added to the history.
C14_ContinueRaisesOrAddsNoPrompt ==
    /\ [][\A c \in ContinueContexts : agent_loop_continue(1, c) =>
            IF c = <<>> \/ c[Len(c)].role = "assistant"
            THEN raised' = "ValueError" /\ act' = act
            ELSE /\ raised' = raised
                 /\ act'[1].pc = "created"
                 /\ act'[1].ctx = c
                 /\ act'[1].new = <<>>
                 /\ act'[1].stream = NewStream]_vars
    /\ [][(act[1].pc = "created" /\ act[1].new = <<>> /\ LoopTaskStart(1)) =>
            /\ act'[1].new = <<>>
            /\ act'[1].ctx = act[1].ctx
            /\ act'[1].trace = <<AgentStartEvent, TurnStartEvent>>]_vars

\* A call was refused with ValueError, a later call from a context ending
\* in a tool result was accepted and its task has made its first step.
C14_Witness ==
    /\ raised = "ValueError"
    /\ act[1].pc = "poll_initial"
    /\ act[1].new = <<>>
    /\ act[1].ctx[Len(act[1].ctx)].role = "toolResult"

\* The assistant messages of a list.
RECURSIVE AssistantCount(_)
AssistantCount(ms) ==
    IF ms = <<>> THEN 0
    ELSE (IF Head(ms).role = "assistant" THEN 1 ELSE 0) + AssistantCount(Tail(ms))

\* C17: the adapter is invoked once per pass of the retry loop and at most
\* max_retries + 1 times for one assistant response, a backoff is only
\* waited while a retry is left; and when a retry succeeds, the turn's
\* result is the one message the successful call produced: it is the last
\* new message and the only assistant message, its message_end is the last
\* event pushed, and no event carries an error message.
C17_RetryBoundedAndSilent ==
    \A a \in Acts :
        LET L == act[a] IN
        /\ L.llmCalls <= max_retries + 1
        /\ L.attempt <= max_retries
        /\ L.pc \in {"await_llm", "streaming"} => L.llmCalls = L.attempt + 1
        /\ L.pc = "backoff" => (L.attempt < max_retries /\ L.llmCalls = L.attempt + 1)
        /\ (/\ L.llmCalls >= 2
            /\ L.new # <<>>
            /\ L.new[Len(L.new)].role = "assistant"
            /\ L.new[Len(L.new)].stop \notin {"error", "aborted"})
           => /\ AssistantCount(L.new) = 1
              /\ L.trace[Len(L.trace)] = MessageEndEvent(L.new[Len(L.new)])
              /\ \A i \in DOMAIN L.trace :
                    ("message" \in DOMAIN L.trace[i] /\ L.trace[i].message.role = "assistant")
                    => L.trace[i].message.stop \notin {"error", "aborted"}

\* The adapter was invoked max_retries + 1 times and the last call produced
\* a message with stop reason stop.
C17_Witness ==
    \E a \in Acts :
        /\ act[a].llmCalls = max_retries + 1
        /\ act[a].new # <<>>
        /\ act[a].new[Len(act[a].new)].role = "assistant"
        /\ act[a].new[Len(act[a].new)].stop = "stop"

\* C19: when every earlier attempt timed out and was retried, and the last
\* attempt the retry loop allows times out as well, the
\* activation ends with a terminal error in that step: an assistant message
\* with stop reason error is the last new message, turn_end and agent_end
\* are the last events pushed, the stream is done and the task is over,
\* so that no further adapter call is made.
C19_TimeoutsExhaustedEndInError ==
    [][\A a \in Acts :
         (/\ act[a].pc = "await_llm"
          /\ act[a].attempt = max_retries
          /\ act[a].timeouts = max_retries
          /\ LlmTimeout(a)) =>
            LET L == act'[a]
                n == Len(L.trace)
            IN  /\ L.pc = "finished"
                /\ L.new # <<>>
                /\ L.new[Len(L.new)].role = "assistant"
                /\ L.new[Len(L.new)].stop = "error"
                /\ n >= 2
                /\ L.trace[n - 1].type = "turn_end"
                /\ L.trace[n].type = "agent_end"
                /\ L.stream.done]_vars

\* C20: with tools that do not return within tool_timeout_ms, a loop task
\* that is over and was not cancelled has answered every tool call of its
\* last assistant message: tool_execution_end with is_error was pushed for
\* the call, and the adapter was invoked again after the message.
C20_ToolTimeoutBecomesErrorResult ==
    \A a \in Acts :
        LET L == act[a] IN
        (/\ L.pc \in LoopOver
         /\ ~L.cancel
         /\ L.new # <<>>
         /\ L.new[Len(L.new)].role = "assistant"
         /\ L.new[Len(L.new)].stop = "toolUse")
        => \A c \in DOMAIN L.new[Len(L.new)].calls :
              \E i \in DOMAIN L.trace :
                 /\ L.trace[i].type = "tool_execution_end"
                 /\ L.trace[i].tool_call_id = L.new[Len(L.new)].calls[c].id
                 /\ L.trace[i].is_error

\* C18: with max_retry_delay_ms configured, no backoff of the retry loop
\* waits longer than max_retry_delay_ms.
C18_BackoffCappedAtMaxRetryDelay ==
    bo.pc # "none" /\ bo.max_retry_delay_ms # 0 =>
        \A i \in DOMAIN bo.waits : bo.waits[i] <= bo.max_retry_delay_ms

\* What a drain of queue q in the given mode must return (ret) and leave
\* (rest): together they are q in its order; mode one-at-a-time returns one
\* message, or none from an empty queue; mode all returns all of them.
DrainedAsClaimed(q, mode, ret, rest) ==
    /\ ret \o rest = q
    /\ Len(ret) = IF mode = "all" THEN Len(q) ELSE (IF q = <<>> THEN 0 ELSE 1)

\* C16: a drain of the steering queue returns its oldest message (mode
\* one-at-a-time; nothing when empty) or all its messages in FIFO order
\* (mode all) and leaves the others queued in their order; a drain of the
\* follow-up queue does the same under the follow-up mode; neither touches
\* the other queue.
C16_DrainFollowsMode ==
    [][ /\ DrainSteering => /\ DrainedAsClaimed(steeringQueue, steeringMode,
                                                 drained', steeringQueue')
                            /\ followUpQueue' = followUpQueue
        /\ DrainFollowUp => /\ DrainedAsClaimed(followUpQueue, followUpMode,
                                                 drained', followUpQueue')
                            /\ steeringQueue' = steeringQueue ]_vars

\* A drain of the steering queue in mode one-at-a-time has returned one
\* message of three and left two, the first of them different from the one
\* returned.
C16_Witness ==
    /\ steeringMode = "one-at-a-time"
    /\ Len(drained) = 1
    /\ drained[1] \in SteerMessages
    /\ Len(steeringQueue) = 2
    /\ drained[1] # steeringQueue[1]

\* C15: an activation that continue_() started from the drained steering
\* messages (skip_initial set) and whose loop task is over has the seed
\* messages first among its new messages, no message twice, and has reached
\* an assistant response.
C15_ContinueFromSteeringReachesResponse ==
    \A a \in Acts :
        LET L == act[a] IN
        (L.skip /\ L.pc \in LoopOver) =>
            /\ L.new # <<>>
            /\ L.new[1].role = "user"
            /\ \A i, j \in DOMAIN L.new : i # j => L.new[i] # L.new[j]
            /\ AssistantCount(L.new) >= 1

\* The events with the given type and tool_call_id in a trace.
ToolEvents(tr, ty, id) ==
    {i \in DOMAIN tr : tr[i].type = ty /\ tr[i].tool_call_id = id}

\* C21: with a catalog that lacks the tools an assistant message calls (or
\* whose tools raise), a loop task that is over and was not cancelled has
\* answered every call of its last assistant message: tool_execution_start
\* and an is_error tool_execution_end were pushed for it and an is_error
\* ToolResultMessage for it follows the assistant message in the new
\* messages; the loop went on to another adapter call, so the last new
\* message is not that assistant message.
C21_FailedToolCallsAreAnswered ==
    \A a \in Acts :
        LET L == act[a] IN
        (L.pc \in LoopOver /\ ~L.cancel) =>
            \A k \in DOMAIN L.new :
                (L.new[k].role = "assistant" /\ L.new[k].stop = "toolUse") =>
                    /\ k < Len(L.new)
                    /\ \A c \in DOMAIN L.new[k].calls :
                          LET id == L.new[k].calls[c].id IN
                          /\ ToolEvents(L.trace, "tool_execution_start", id) # {}
                          /\ \E i \in ToolEvents(L.trace, "tool_execution_end", id) :
                                 L.trace[i].is_error
                          /\ \E j \in DOMAIN L.new :
                                 /\ j > k
                                 /\ L.new[j] = ToolResultMessage(id, L.new[k].calls[c].name, TRUE)

C23_ErrorTurnEndsTheActivation ==
    \A a \in Acts :
        LET L == act[a]
            n == Len(L.trace)
        IN  (/\ L.pc \in LoopOver
             /\ L.new # <<>>
             /\ L.new[Len(L.new)].role = "assistant"
             /\ L.new[Len(L.new)].stop \in {"error", "aborted"})
            => /\ L.pc = "finished"
               /\ n >= 2
               /\ L.trace[n - 1].type = "turn_end"
               /\ L.trace[n - 1].message = L.new[Len(L.new)]
               /\ L.trace[n - 1].tool_results = <<>>
               /\ L.trace[n].type = "agent_end"
               /\ L.stream.done

\* C25: a prompt(messages) on an idle Agent whose model is missing, has no adapter
\* registered for its api tag, or has no API key, raises in the call:
\* no loop task is started (so that no event can reach a listener), the
\* Agent's state is unchanged (no message appended, is_streaming false) and
\* nothing is handed to the listeners.
C25_MisconfiguredPromptRaisesAtOnce ==
    [][\A input \in PromptInputs :
         (/\ ~state.is_streaming
          /\ state.model # "ready"
          /\ input # <<>>
          /\ prompt(input)) =>
            /\ raised' \in {"ValueError", "RuntimeError"}
            /\ UNCHANGED <<act, state, listenerLog>>]_vars

\* C26: whatever the listeners do, once the loop task of an activation is
\* over and the Agent has nothing of it left to read, or has stopped
\* reading, every event the activation's stream accepted has been handed
\* to every listener.
C26_ListenerErrorDropsNoEvent ==
    \A a \in Acts :
        LET L == act[a] IN
        (L.pc \in LoopOver /\ (L.stream.q = <<>> \/ L.cpc = "returned")) =>
            \A i \in DOMAIN L.trace :
                \E j \in DOMAIN listenerLog : listenerLog[j] = L.trace[i]

\* The last register call for the tag in the log, 0 if there is none.
LastRegistration(log, api) ==
    LET I == {i \in DOMAIN log : log[i][1] = "register" /\ log[i][2][1] = api}
    IN  IF I = {} THEN 0 ELSE CHOOSE i \in I : \A j \in I : j <= i

\* The registration log[i] was removed by a later call.
RemovedAfter(log, i) ==
    \E j \in DOMAIN log :
        /\ j > i
        /\ \/ log[j][1] = "clear"
           \/ log[j][1] = "unregister" /\ log[j][2] = log[i][3]

\* C27: after any calls on the registry, a tag has an entry exactly when its
\* most recent registration was not followed by an unregister of that
\* registration's source_id (or by a clear), and the entry is that
\* registration's adapter and source_id: the last writer wins, and
\* unregister_api_providers(s) takes away the tags whose current entry
\* carries s and nothing else.
C27_LastRegistrationWins ==
    reg # NoRegistry =>
        \A api \in Apis :
            LET i == LastRegistration(reg.log, api) IN
            IF i = 0 \/ RemovedAfter(reg.log, i)
            THEN api \notin DOMAIN reg.entries
            ELSE /\ api \in DOMAIN reg.entries
                 /\ reg.entries[api] = <<reg.log[i][2], reg.log[i][3]>>
                 /\ get_api_provider(api) = reg.log[i][2]

\* A tag was registered under s1 and again, with another adapter, under s2;
\* another tag was registered under s1; unregister_api_providers("s1")
\* then removed the second tag only.
C27_Witness ==
    /\ reg # NoRegistry
    /\ Len(reg.log) = 4
    /\ reg.log[1] = <<"register", Provider("openai-completions", "f"), "s1">>
    /\ reg.log[2] = <<"register", Provider("plugin-api", "f"), "s1">>
    /\ reg.log[3] = <<"register", Provider("openai-completions", "g"), "s2">>
    /\ reg.log[4] = <<"unregister", "s1">>
    /\ DOMAIN reg.entries = {"openai-completions"}
    /\ reg.entries["openai-completions"] = <<Provider("openai-completions", "g"), "s2">>

\* C28: once the providers package has been imported, and as long as no
\* call has changed the registry, every built-in api tag resolves through
\* _resolve_api_provider to the adapter registered for it at import.
C28_BuiltinTagsResolve ==
    (reg # NoRegistry /\ reg.imported /\ reg.log = <<>>) =>
        \A api \in BuiltinApis :
            resolve_api_provider(api) = reg.builtin[api][1]

\* The activations whose loop task is running.
RunningTasks == {a \in Acts : act[a].pc \in Running}

\* C31: wait_for_idle() returns only when no loop task is running; a call
\* made when none is running returns in the call; and a call that waits
\* returns once the loop task of the activation it waits for is over,
\* however that task ended.
C31_WaitForIdleReturnsWhenIdle ==
    /\ [][(idle.pc # "returned" /\ idle'.pc = "returned") => RunningTasks' = {}]_vars
    /\ [][(RunningTasks = {} /\ wait_for_idle) => idle'.pc = "returned"]_vars
    /\ (idle.pc = "waiting" /\ act[idle.fut].pc \in LoopOver) ~> (idle.pc = "returned")

\* The characters of id that str.isalnum() accepts, in order.
Stripped(id) == SelectSeq(id, isalnum)

\* C32: a normalised tool-call id has exactly 9 characters, all of them
\* alphanumeric: it starts with the first 9 alphanumeric characters of the
\* input, in order, and the rest, if any, are the leading characters of
\* "ABCDEFGHI"; normalising a normalised id returns it unchanged.
C32_NormalizedIdHasNineAlnum ==
    (call.pc = "returned" /\ call.fn \in Normalisers) =>
        LET n == Len(Stripped(call.arg))
            k == IF n < 9 THEN n ELSE 9
        IN  /\ Len(call.result) = 9
            /\ \A i \in 1 .. 9 : isalnum(call.result[i])
            /\ \A i \in 1 .. k : call.result[i] = Stripped(call.arg)[i]
            /\ \A i \in k + 1 .. 9 : call.result[i] = padding[i - k]
            /\ call.again => call.result = call.arg

\* normalize_mistral_tool_id has returned for an id that was both stripped
\* of a rejected character and padded.
C32_Witness ==
    /\ call.pc = "returned"
    /\ call.fn = "normalize_mistral_tool_id"
    /\ ~call.again
    /\ Len(Stripped(call.arg)) < Len(call.arg)
    /\ Len(Stripped(call.arg)) \in 1 .. 8


\* The messages queued behind the steering hook so far, in queueing order.
Steered == [i \in 1 .. nSteer |-> UserMessage(10 + i - 1)]

\* The steering messages of a history, in history order.
SteeringIn(ms) == SelectSeq(ms, LAMBDA m : m.role = "user" /\ m.n >= 10)

Terminals(evs) == SelectSeq(evs, am_is_complete)

\* C36: the stream of every adapter delivers exactly one terminal event
\* (done or error), as the last event, and is then closed: no event follows
\* a terminal event, and every run of an adapter comes to a state in which
\* the consumer's iteration has halted after exactly one terminal event.
C36_ExactlyOneTerminalEventThenClosed ==
    /\ [](\A i \in 1 .. Len(esOut) : am_is_complete(esOut[i]) => i = Len(esOut))
    /\ <>(esHalted /\ Len(Terminals(esOut)) = 1)


\* C37: the message of a message_start or message_update event is the
\* assistant message as it was when the adapter emitted the event the loop
\* is handling, whatever the adapter pushed in between: the event the loop
\* pushes for a StartEvent or a delta event carries the content (ver) the
\* adapter's event was pushed with.
C37_SnapshotIsMessageAtEmission ==
    [][ (/\ act[1].pc = "streaming"
         /\ es.q # <<>>
         /\ Head(es.q).type \in {"start", "text_delta"}
         /\ Len(act'[1].trace) > Len(act[1].trace))
        => act'[1].trace[Len(act'[1].trace)].message.ver = Head(es.q).partial.ver ]_vars


\* C38: when an adapter has handled usage in the provider's stream, the
\* usage of its message holds the token counts it saw, and the cost in it
\* is calculate_cost of the model and that same usage.
C38_UsageCarriesItsOwnCost ==
    (call.pc = "returned" /\ call.fn = "openai_usage") =>
        /\ call.result.input = call.arg.usage_data.prompt_tokens
        /\ call.result.output = call.arg.usage_data.completion_tokens
        /\ call.result.total_tokens = call.arg.usage_data.total_tokens
        /\ call.result.cost = calculate_cost(call.arg.model, call.result)


\* The stop codes the provider behind a mapping sends.
ProviderCodes(fn) ==
    CASE fn = "_map_finish_reason" -> {"stop", "length", "tool_calls", "content_filter"}
      [] fn = "_map_anthropic_stop_reason" -> {"end_turn", "max_tokens", "stop_sequence", "tool_use"}
      [] fn = "_map_google_stop_reason" -> {"STOP", "MAX_TOKENS", "SAFETY", "RECITATION"}

\* C39: every adapter maps the stop codes of its provider as tabled: stop
\* and end_turn to stop, max_tokens to length, tool_use, tool_calls and
\* stop_sequence to toolUse, and a code no provider knows to stop.  (The
\* provider spellings the table does not name, such as length or
\* MAX_TOKENS, are left out.)
C39_StopCodesMapAsTabled ==
    (/\ call.pc = "returned"
     /\ call.fn \in StopMappers
     /\ \/ call.arg = "other"
        \/ /\ call.arg \in ProviderCodes(call.fn)
           /\ call.arg \in {"stop", "end_turn", "max_tokens", "tool_use", "tool_calls",
                            "stop_sequence"})
    => call.result = CASE call.arg \in {"stop", "end_turn"} -> "stop"
                       [] call.arg = "max_tokens" -> "length"
                       [] call.arg \in {"tool_use", "tool_calls", "stop_sequence"} -> "toolUse"
                       [] OTHER -> "stop"


\* The tool-call blocks of a content, resp. the tool calls of a response.
ToolCallsOf(blocks) == SelectSeq(blocks, LAMBDA b : b.type = "toolCall")

\* C40: for a response carrying k tool calls, the content of the final
\* message has exactly k tool-call blocks, their ids differ pairwise, and
\* the j-th block holds the name and the arguments of the j-th call.
C40_OneBlockPerToolCall ==
    (call.pc = "returned" /\ call.fn \in ContentBuilders) =>
        LET sent == ToolCallsOf(call.arg)
            got  == ToolCallsOf(call.result)
        IN  /\ Len(got) = Len(sent)
            /\ \A i, j \in 1 .. Len(got) : i # j => got[i].id # got[j].id
            /\ \A j \in 1 .. Len(got) :
                  got[j].name = sent[j].name /\ got[j].arguments = sent[j].arguments

============================================================================
